---- MODULE Spec2Model ----
(***************************************************************************)
(* modlib / itmod: the little-endian bit reader (bitstream), the IT sample *)
(* decompression codec (ItSampleCodec), the IT pattern unpacker            *)
(* (ItPattern.ToCommon) with its note and volume-column translations, and  *)
(* the channel count of ItModule.ToCommon.                                 *)
(*                                                                         *)
(* Eight specifications, one per component or view of it:                  *)
(*   SpecBitstream  - a bitstream over a byte source, read with any widths *)
(*   SpecSplit      - the same bitstream read in pairs of calls, each pair *)
(*                    set against one call of the summed width             *)
(*   SpecCodec      - ItSampleCodec.Decode over a chunk stream, a step per *)
(*                    pass of decodeChunk's loop, and ReadItSample's use   *)
(*                    of its result                                        *)
(*   SpecBlocks     - ItSampleCodec.Decode, a step per call of decodeChunk,*)
(*                    on streams that fill a block of 16384 / 32768 samples*)
(*   SpecPattern    - ItPattern.ToCommon over packed pattern data          *)
(*   SpecModule     - ItModule.ToCommon's loop over the patterns           *)
(*   SpecTranslate  - translateNote / translatePatternVolume on every byte *)
(*   SpecDecoders   - a call of Decode or of ItPattern.ToCommon on short   *)
(*                    input, followed to its return under weak fairness    *)
(* The variables of the components a specification does not run stay at    *)
(* their idle values.                                                      *)
(***************************************************************************)
EXTENDS Integers, Sequences, FiniteSets, TLC

VARIABLES
    \* bitstream under test (SpecBitstream)
    bs,          \* the bitstream struct: source, readPos, buffer, buffered
    bsLast,      \* the last read call: width asked, value and error returned
    bsConsumed,  \* bits handed out by the successful reads so far (history)
    hsplit,      \* history: a read taken whole and in two parts (SpecSplit)
    \* translations (SpecTranslate)
    xin,         \* the raw byte given
    xnote,       \* translateNote(xin), once applied
    xvol,        \* translatePatternVolume(xin), once applied
    \* ItPattern.ToCommon (SpecPattern)
    itp,              \* the ItPattern: Data (packed bytes) and Rows (Header.Rows)
    ppc,              \* "rows": in the row loop; "returned": ToCommon returned p;
                      \* "idle": not called
    dataRead,         \* index of the next unread byte of Data
    lastMask,         \* per channel (0..63): the stored mask
    lastNote,         \* per channel: the stored raw note
    lastIns,          \* per channel: the stored instrument
    lastVol,          \* per channel: the stored raw volume byte
    lastEffect,       \* per channel: the stored effect
    lastEffectParam,  \* per channel: the stored effect parameter
    channels,         \* 1 + highest channel selected so far
    row,              \* the row being unpacked
    patternRow,       \* the entries of the row being unpacked
    p,                \* the common.Pattern being built: Rows, Channels
    hstep,            \* history: the last pass of the inner loop
    hshort,           \* history: nextByte was called with no byte left
    hrow,             \* history: the channel selections of the current row
    hrows,            \* history: the channel selections of the finished rows
    \* ItSampleCodec.Decode (SpecCodec)
    codec,            \* the ItSampleCodec: It215, Is16
    r,                \* the io.Reader: its bytes (data) and how many were read (pos)
    sampleLength,     \* the number of samples asked of Decode
    dpc,              \* "Decode": at the head of Decode's loop; "decodeChunk": at
                      \* the head of decodeChunk's loop; "returned": Decode returned;
                      \* "stored", "failed": ReadItSample took Decode's result;
                      \* "idle": not called
    remainingLength,  \* Decode: samples still to produce
    totalData,        \* Decode: samples produced by the chunks decoded so far
    dataSource,       \* decodeChunk: the bitstream over the chunk's payload
    curLength,        \* decodeChunk: samples still to produce from this chunk
    width,            \* decodeChunk: the current bit width
    mem1,             \* decodeChunk: first-order accumulator
    mem2,             \* decodeChunk: second-order accumulator
    decoded,          \* decodeChunk: samples produced from this chunk
    dret,             \* what Decode returned: data and err
    hchunks,          \* history: the chunks Decode pulled, one record each
    hpass,            \* history: the last pass of decodeChunk's loop
    hwrites,          \* history: the arguments of the write calls of the chunk
    \* ItReader.ReadItSample, the compressed branch
    itsData,          \* its.Data: the channels of sample data stored so far
    \* ItModule.ToCommon, the part that counts the channels
    itm,              \* the ItModule: Patterns, each with Data and Rows
    mpc,              \* "patterns": in the loop over itm.Patterns; "pattern":
                      \* inside pattern.ToCommon; "returned"; "idle": not called
    mnext,            \* index of the next pattern of the loop
    mchannels,        \* the local channels of ItModule.ToCommon
    module            \* the common.Module being built: Patterns, Channels,
                      \* ChannelSettings

bvars == <<bs, bsLast, bsConsumed, hsplit>>
xvars == <<xin, xnote, xvol>>
lastvars == <<lastMask, lastNote, lastIns, lastVol, lastEffect, lastEffectParam>>
pvars == <<itp, ppc, dataRead, lastvars, channels, row, patternRow, p,
           hstep, hshort, hrow, hrows>>
chunkvars == <<dataSource, curLength, width, mem1, mem2, decoded>>
cvars == <<codec, r, sampleLength, dpc, remainingLength, totalData, chunkvars, dret>>
svars == <<itsData>>
hvars == <<hchunks, hpass, hwrites>>
mvars == <<itm, mpc, mnext, mchannels, module>>
vars == <<bvars, xvars, pvars, cvars, svars, hvars, mvars>>

----------------------------------------------------------------------------
(* Bounds of the model *)

\* longest byte source of the bitstream under test
MaxSrcLen == 4

\* longest packed pattern data
MaxPatLen == 5

\* longest payload of a compressed chunk
MaxChunkLen == 3

\* largest sampleLength asked of Decode
MaxSamples == 2

----------------------------------------------------------------------------
(* Values *)

Byte == 0..255
Unset == "unset"
nil == "nil"
ErrEndOfStream == "end of stream"
ErrBadParam == "bad param"
ErrDecodingError == "decoding error"
EOF == "EOF"
ErrUnexpectedEOF == "unexpected EOF"

Pow2(n) == 2^n

\* bit i of the non-negative integer x
Bit(x, i) == (x \div Pow2(i)) % 2

\* x & y on non-negative integers
RECURSIVE BitAnd(_, _)
BitAnd(x, y) ==
    IF x = 0 \/ y = 0 THEN 0
    ELSE (x % 2) * (y % 2) + 2 * BitAnd(x \div 2, y \div 2)

\* all sequences over S of length 0..n
SeqsUpTo(S, n) == UNION {[1..k -> S] : k \in 0..n}

Last(seq) == seq[Len(seq)]

----------------------------------------------------------------------------
(* bitstream: a uint64 buffer is the set of its 1-bit positions, a subset  *)
(* of 0..63, so that shifts lose what a 64-bit shift loses.                *)

\* the bit positions of a buffer of 16 bits
Uint16Bits == 0..15

Uint64Bits == 0..63

\* the bits of a byte, as a buffer value: uint64(b)
BitsOf(b) == {i \in 0..7 : Bit(b, i) = 1}

\* x << n on uint64
ShiftLeft(x, n) == {i + n : i \in x} \cap Uint64Bits

\* x >> n on uint64
ShiftRight(x, n) == {i - n : i \in {j \in x : j >= n}}

\* uint32(x & ((1 << width) - 1)), as a number
LowBits(x, n) ==
    LET low == x \cap 0..(n - 1)
        f[i \in 0..32] == IF i = 32 THEN 0
                          ELSE (IF i \in low THEN Pow2(i) ELSE 0) + f[i + 1]
    IN f[0]

createBitstream(source) ==
    [source |-> source, readPos |-> 0, buffer |-> {}, buffered |-> 0]

\* bs.buffer |= uint64(byte) << bs.buffered, as the buffer would drop the shift
bufferByteNoShift(buffer, byte, buffered) == buffer \cup BitsOf(byte)

\* bs.buffer |= uint64(byte) << bs.buffered
bufferByte(buffer, byte, buffered) ==
    buffer \cup ShiftLeft(BitsOf(byte), buffered)

\* the refill loop of read(n): bytes are taken until n bits are buffered
RECURSIVE fill(_, _)
fill(b, n) ==
    IF b.buffered < n
    THEN IF b.readPos >= Len(b.source)
         THEN [bs |-> b, err |-> ErrEndOfStream]
         ELSE fill([b EXCEPT
                      !.buffer = bufferByte(@, b.source[b.readPos + 1], b.buffered),
                      !.readPos = @ + 1,
                      !.buffered = @ + 8], n)
    ELSE [bs |-> b, err |-> nil]

\* read(n) with the width tested after the refill loop instead of before it
readChecksWidthLate(b, n) ==
    LET f == fill(b, n) IN
    IF n < 0 \/ n >= 32
    THEN [bs |-> f.bs, val |-> 0, err |-> ErrBadParam]
    ELSE IF f.err # nil
         THEN [bs |-> f.bs, val |-> 0, err |-> f.err]
         ELSE [bs |-> [f.bs EXCEPT !.buffer = ShiftRight(@, n),
                                   !.buffered = @ - n],
               val |-> LowBits(f.bs.buffer, n),
               err |-> nil]

\* read(n) that tolerates the end of the source: what is buffered is returned,
\* the missing bits being 0
readPadsWithZeros(b, n) ==
    IF n < 0 \/ n >= 32
    THEN [bs |-> b, val |-> 0, err |-> ErrBadParam]
    ELSE LET f == fill(b, n) IN
         IF f.err # nil
         THEN [bs |-> [f.bs EXCEPT !.buffer = {}, !.buffered = 0],
               val |-> LowBits(f.bs.buffer, n),
               err |-> nil]
         ELSE [bs |-> [f.bs EXCEPT !.buffer = ShiftRight(@, n),
                                   !.buffered = @ - n],
               val |-> LowBits(f.bs.buffer, n),
               err |-> nil]

\* read(n) that empties the buffer when the source ends before n bits are there
readDropsBufferAtEnd(b, n) ==
    IF n < 0 \/ n >= 32
    THEN [bs |-> b, val |-> 0, err |-> ErrBadParam]
    ELSE LET f == fill(b, n) IN
         IF f.err # nil
         THEN [bs |-> [f.bs EXCEPT !.buffer = {}, !.buffered = 0],
               val |-> 0, err |-> f.err]
         ELSE [bs |-> [f.bs EXCEPT !.buffer = ShiftRight(@, n),
                                   !.buffered = @ - n],
               val |-> LowBits(f.bs.buffer, n),
               err |-> nil]

\* bitstream.read(n): the stream after the call, the value and the error
read(b, n) ==
    IF n < 0 \/ n >= 32
    THEN [bs |-> b, val |-> 0, err |-> ErrBadParam]
    ELSE LET f == fill(b, n) IN
         IF f.err # nil
         THEN [bs |-> f.bs, val |-> 0, err |-> f.err]
         ELSE [bs |-> [f.bs EXCEPT !.buffer = ShiftRight(@, n),
                                   !.buffered = @ - n],
               val |-> LowBits(f.bs.buffer, n),
               err |-> nil]

\* bits of its source that the bitstream b has handed out
position(b) == 8 * b.readPos - b.buffered

----------------------------------------------------------------------------
(* ItSampleCodec *)

ItSampleCodecParams16 ==
    [lowerTab |-> <<0, 0 - 1, 0 - 3, 0 - 7, 0 - 15, 0 - 31, 0 - 56, 0 - 120,
                    0 - 248, 0 - 504, 0 - 1016, 0 - 2040, 0 - 4088, 0 - 8184,
                    0 - 16376, 0 - 32760, 0 - 32768>>,
     upperTab |-> <<0, 1, 3, 7, 15, 31, 55, 119, 247, 503, 1015, 2039, 4087,
                    8183, 16375, 32759, 32767>>,
     fetchA |-> 4, lowerB |-> 0 - 8, upperB |-> 7, defWidth |-> 17,
     mask |-> 65535]

\* the 8-bit parameters with the 16-bit codec's fetch width
ItSampleCodecParams8Fetch4 ==
    [lowerTab |-> <<0, 0 - 1, 0 - 3, 0 - 7, 0 - 15, 0 - 31, 0 - 60, 0 - 124,
                    0 - 128>>,
     upperTab |-> <<0, 1, 3, 7, 15, 31, 59, 123, 127>>,
     fetchA |-> 4, lowerB |-> 0 - 4, upperB |-> 3, defWidth |-> 9,
     mask |-> 255]

\* the 8-bit parameters with a window of Mode B that starts one higher
ItSampleCodecParams8Window3 ==
    [lowerTab |-> <<0, 0 - 1, 0 - 3, 0 - 7, 0 - 15, 0 - 31, 0 - 60, 0 - 124,
                    0 - 128>>,
     upperTab |-> <<0, 1, 3, 7, 15, 31, 59, 123, 127>>,
     fetchA |-> 3, lowerB |-> 0 - 3, upperB |-> 3, defWidth |-> 9,
     mask |-> 255]

ItSampleCodecParams8 ==
    [lowerTab |-> <<0, 0 - 1, 0 - 3, 0 - 7, 0 - 15, 0 - 31, 0 - 60, 0 - 124,
                    0 - 128>>,
     upperTab |-> <<0, 1, 3, 7, 15, 31, 59, 123, 127>>,
     fetchA |-> 3, lowerB |-> 0 - 4, upperB |-> 3, defWidth |-> 9,
     mask |-> 255]

\* props := &ItSampleCodecParams8; if c.Is16 { props = &ItSampleCodecParams16 }
propsOf(c) == IF c.Is16 THEN ItSampleCodecParams16 ELSE ItSampleCodecParams8

\* maxBlockLength without the halving for 16-bit samples
maxBlockLengthNotHalved(c) == 32 * 1024

\* maxBlockLength := 32 * 1024; if c.Is16 { maxBlockLength /= 2 }
maxBlockLength(c) == IF c.Is16 THEN (32 * 1024) \div 2 ELSE 32 * 1024

\* min(a, b)
min(a, b) == IF a < b THEN a ELSE b

\* int16(x): the low 16 bits of x, as a signed number
Int16(x) == ((x + 32768) % 65536) - 32768

\* int8(x): the low 8 bits of x, as a signed number
Int8(x) == ((x + 128) % 256) - 128

\* data8[i] = int8(decoded[i]) for every i
narrow8(dec) == [i \in 1..Len(dec) |-> Int8(dec[i])]

\* what io.ReadFull returns when fewer bytes are left than asked: io.EOF when
\* none was read, io.ErrUnexpectedEOF when some were
readFullErr(left) == IF left = 0 THEN EOF ELSE ErrUnexpectedEOF

\* getChunk that takes a payload shorter than declared as it comes
getChunkTakesShort(rd) ==
    LET n == Len(rd.data)
        atEnd == [rd EXCEPT !.pos = n]
    IN IF n - rd.pos < 2
       THEN [bs |-> createBitstream(<<>>), err |-> readFullErr(n - rd.pos),
             r |-> atEnd]
       ELSE LET byteLength == rd.data[rd.pos + 1] + 256 * rd.data[rd.pos + 2]
                from == rd.pos + 2
                upto == min(n, from + byteLength)
            IN [bs |-> createBitstream(SubSeq(rd.data, from + 1, upto)),
                err |-> nil,
                r |-> [rd EXCEPT !.pos = upto]]

\* getChunk that takes one byte more from the reader than the chunk has, when
\* there is one
getChunkReadsAhead(rd) ==
    LET n == Len(rd.data)
        atEnd == [rd EXCEPT !.pos = n]
    IN IF n - rd.pos < 2
       THEN [bs |-> createBitstream(<<>>), err |-> readFullErr(n - rd.pos),
             r |-> atEnd]
       ELSE LET byteLength == rd.data[rd.pos + 1] + 256 * rd.data[rd.pos + 2]
                from == rd.pos + 2
            IN IF n - from < byteLength
               THEN [bs |-> createBitstream(<<>>), err |-> readFullErr(n - from),
                     r |-> atEnd]
               ELSE [bs |-> createBitstream(SubSeq(rd.data, from + 1,
                                                   from + byteLength)),
                     err |-> nil,
                     r |-> [rd EXCEPT !.pos = min(n, from + byteLength + 1)]]

\* getChunk: a little-endian uint16 byteLength, then byteLength bytes, wrapped
\* in a bitstream. A read that comes short takes what is left of the reader.
getChunk(rd) ==
    LET n == Len(rd.data)
        atEnd == [rd EXCEPT !.pos = n]
    IN IF n - rd.pos < 2
       THEN [bs |-> createBitstream(<<>>), err |-> readFullErr(n - rd.pos),
             r |-> atEnd]
       ELSE LET byteLength == rd.data[rd.pos + 1] + 256 * rd.data[rd.pos + 2]
                from == rd.pos + 2
            IN IF n - from < byteLength
               THEN [bs |-> createBitstream(<<>>), err |-> readFullErr(n - from),
                     r |-> atEnd]
               ELSE [bs |-> createBitstream(SubSeq(rd.data, from + 1,
                                                   from + byteLength)),
                     err |-> nil,
                     r |-> [rd EXCEPT !.pos = from + byteLength]]

\* changeWidth without the second increment
changeWidthNoSkip(w, toWidth) == toWidth + 1

\* changeWidth without either increment
changeWidthNoIncrement(w, toWidth) == toWidth

\* changeWidth(toWidth) at the current width w: the new width
changeWidth(w, toWidth) ==
    IF toWidth + 1 >= w THEN toWidth + 2 ELSE toWidth + 1

\* write(v, topBit) without the else: with It215 both mem2 and mem1 are appended
writeMissingElse(c, m1, m2, dec, cur, v, topBit) ==
    LET d == IF BitAnd(v, topBit) # 0 THEN v - 2 * topBit ELSE v
        n1 == m1 + d
        n2 == m2 + n1
    IN [mem1 |-> n1,
        mem2 |-> n2,
        decoded |-> IF c.It215 THEN dec \o <<Int16(n2), Int16(n1)>>
                    ELSE Append(dec, Int16(n1)),
        curLength |-> cur - 1]

\* write(v, topBit) that appends mem1 whether It215 is set or not
writeEmitsMem1(c, m1, m2, dec, cur, v, topBit) ==
    LET d == IF BitAnd(v, topBit) # 0 THEN v - 2 * topBit ELSE v
        n1 == m1 + d
        n2 == m2 + n1
    IN [mem1 |-> n1,
        mem2 |-> n2,
        decoded |-> Append(dec, Int16(n1)),
        curLength |-> cur - 1]

\* write(v, topBit) that leaves mem2 alone when It215 is not set
writeSkipsMem2(c, m1, m2, dec, cur, v, topBit) ==
    LET d == IF BitAnd(v, topBit) # 0 THEN v - 2 * topBit ELSE v
        n1 == m1 + d
        n2 == IF c.It215 THEN m2 + n1 ELSE m2
    IN [mem1 |-> n1,
        mem2 |-> n2,
        decoded |-> Append(dec, Int16(IF c.It215 THEN n2 ELSE n1)),
        curLength |-> cur - 1]

\* write(v, topBit) without the sign extension
writeUnsigned(c, m1, m2, dec, cur, v, topBit) ==
    LET n1 == m1 + v
        n2 == m2 + n1
    IN [mem1 |-> n1,
        mem2 |-> n2,
        decoded |-> Append(dec, Int16(IF c.It215 THEN n2 ELSE n1)),
        curLength |-> cur - 1]

\* write(v, topBit): mem1, mem2, decoded and curLength after the call
write(c, m1, m2, dec, cur, v, topBit) ==
    LET d == IF BitAnd(v, topBit) # 0 THEN v - 2 * topBit ELSE v
        n1 == m1 + d
        n2 == m2 + n1
    IN [mem1 |-> n1,
        mem2 |-> n2,
        decoded |-> Append(dec, Int16(IF c.It215 THEN n2 ELSE n1)),
        curLength |-> cur - 1]

\* the width test against the 16-bit default width, whatever the sample size
widthOverDefault16(c, w) == w > ItSampleCodecParams16.defWidth

\* if width > props.defWidth: the corruption guard of decodeChunk's loop
widthOverDefault(c, w) == w > propsOf(c).defWidth

\* topBit := (1 << (width - 1))
topBitOf(w) == Pow2(w - 1)

\* the width taken as the low bits of v, without the + 1
absoluteWidthNoIncrement(v, topBit) == v - topBit

\* width = (v & ^topBit) + 1, v having its top bit set
absoluteWidth(v, topBit) == (v - topBit) + 1

----------------------------------------------------------------------------
(* decodeChunk as one call: the locals of the call are a record, a pass of  *)
(* the loop is a function of them, and the call is the loop run to its end  *)

\* the locals of a call whose accumulators are those the call before left
chunkStartKeepsMem(c, source, remaining) ==
    [dataSource |-> source,
     curLength |-> min(remaining, maxBlockLength(c)),
     width |-> propsOf(c).defWidth,
     mem1 |-> mem1, mem2 |-> mem2, decoded |-> <<>>, err |-> nil]

\* the locals after lines 100-130: the chunk's bitstream, curLength, width,
\* mem1, mem2, decoded; err is the error the call is returning, if any
chunkStart(c, source, remaining) ==
    [dataSource |-> source,
     curLength |-> min(remaining, maxBlockLength(c)),
     width |-> propsOf(c).defWidth,
     mem1 |-> 0, mem2 |-> 0, decoded |-> <<>>, err |-> nil]

\* the locals after write(v, topBit), the stream being at b
passWrite(s, b, w) ==
    [s EXCEPT !.dataSource = b, !.mem1 = w.mem1, !.mem2 = w.mem2,
              !.decoded = w.decoded, !.curLength = w.curLength]

\* Mode A, v = topBit: the outcome fd of the read of fetchA bits
passFetched(s, fd) ==
    IF fd.err # nil
    THEN [s EXCEPT !.dataSource = fd.bs, !.err = fd.err]
    ELSE [s EXCEPT !.dataSource = fd.bs, !.width = changeWidth(s.width, fd.val)]

\* the rest of a pass after the read of width bits, rd being its outcome
passRead(c, s, rd, topBit) ==
    IF rd.err # nil
    THEN [s EXCEPT !.dataSource = rd.bs, !.err = rd.err]
    ELSE IF s.width <= 6
    THEN IF rd.val = topBit
         THEN passFetched(s, read(rd.bs, propsOf(c).fetchA))
         ELSE passWrite(s, rd.bs, write(c, s.mem1, s.mem2, s.decoded,
                                        s.curLength, rd.val, topBit))
    ELSE IF s.width < propsOf(c).defWidth
    THEN IF /\ rd.val >= topBit + propsOf(c).lowerB
            /\ rd.val <= topBit + propsOf(c).upperB
         THEN [s EXCEPT !.dataSource = rd.bs,
                        !.width = changeWidth(s.width,
                                     rd.val - (topBit + propsOf(c).lowerB))]
         ELSE passWrite(s, rd.bs, write(c, s.mem1, s.mem2, s.decoded,
                                        s.curLength, rd.val, topBit))
    ELSE IF BitAnd(rd.val, topBit) # 0
         THEN [s EXCEPT !.dataSource = rd.bs,
                        !.width = absoluteWidth(rd.val, topBit)]
         ELSE passWrite(s, rd.bs, write(c, s.mem1, s.mem2, s.decoded,
                                        s.curLength, rd.val, 0))

\* one pass of the loop of lines 148-187; a call that has left the loop, by
\* its condition or by a return, stays as it is
chunkPass(c, s) ==
    IF s.err # nil \/ s.curLength <= 0 THEN s
    ELSE IF widthOverDefault(c, s.width)
    THEN [s EXCEPT !.err = ErrDecodingError]
    ELSE passRead(c, s, read(s.dataSource, s.width), topBitOf(s.width))

\* n passes of the loop
RECURSIVE chunkPasses(_, _, _)
chunkPasses(c, s, n) ==
    IF n <= 1 THEN chunkPass(c, s)
    ELSE CHOOSE u \in {chunkPasses(c, t, n - (n \div 2)) :
                          t \in {chunkPasses(c, s, n \div 2)}} : TRUE

\* the loop run to its end: every pass but the last of a call reads at least
\* one bit of the chunk, so that it has at most 8 * len(source) + 1 passes
chunkLoop(c, s) == chunkPasses(c, s, 8 * Len(s.dataSource.source) + 1)

\* decodeChunk(r, remainingLength): the reader after the call, the locals at
\* its return and what it returns
decodeChunk(c, rd, remaining) ==
    LET g == getChunk(rd) IN
    IF g.err # nil
    THEN [r |-> g.r, locals |-> chunkStart(c, g.bs, 0),
          chunk |-> <<>>, err |-> g.err]
    ELSE LET s == chunkLoop(c, chunkStart(c, g.bs, remaining)) IN
         [r |-> g.r, locals |-> s,
          chunk |-> IF s.err # nil THEN <<>> ELSE s.decoded,
          err |-> s.err]

----------------------------------------------------------------------------
(* translateNote, translatePatternVolume (uint8 arithmetic) *)

Uint8(x) == x % 256

\* translateNote with the first comparison strict (note < 120)
translateNoteStrict(note) ==
    IF note < 120 THEN Uint8(note + 1)
    ELSE IF note = 254 \/ note = 255 THEN note
    ELSE IF note >= 120 THEN 253
    ELSE 0

\* translateNote that keeps the raw note 0 as the empty note 0
translateNoteKeepsZero(note) ==
    IF note = 0 THEN 0
    ELSE IF note <= 120 THEN Uint8(note + 1)
    ELSE IF note = 254 \/ note = 255 THEN note
    ELSE IF note >= 120 THEN 253
    ELSE 0

translateNote(note) ==
    IF note <= 120 THEN Uint8(note + 1)
    ELSE IF note = 254 \/ note = 255 THEN note
    ELSE IF note >= 120 THEN 253
    ELSE 0

\* translatePatternVolume with the pan range one value longer (vol <= 129)
translatePatternVolumeWidePan(vol) ==
    IF vol <= 64 THEN <<1, vol>>
    ELSE IF vol <= 74 THEN <<2, Uint8(vol - 65)>>
    ELSE IF vol <= 84 THEN <<3, Uint8(vol - 75)>>
    ELSE IF vol <= 94 THEN <<4, Uint8(vol - 85)>>
    ELSE IF vol <= 104 THEN <<5, Uint8(vol - 95)>>
    ELSE IF vol <= 114 THEN <<6, Uint8(vol - 105)>>
    ELSE IF vol <= 124 THEN <<7, Uint8(vol - 125)>>
    ELSE IF vol <= 127 THEN <<0, 0>>
    ELSE IF vol <= 129 THEN <<8, Uint8(vol - 128)>>
    ELSE IF vol <= 202 THEN <<9, Uint8(vol - 129)>>
    ELSE IF vol <= 212 THEN <<10, Uint8(vol - 203)>>
    ELSE <<0, 0>>

translatePatternVolume(vol) ==
    IF vol <= 64 THEN <<1, vol>>
    ELSE IF vol <= 74 THEN <<2, Uint8(vol - 65)>>
    ELSE IF vol <= 84 THEN <<3, Uint8(vol - 75)>>
    ELSE IF vol <= 94 THEN <<4, Uint8(vol - 85)>>
    ELSE IF vol <= 104 THEN <<5, Uint8(vol - 95)>>
    ELSE IF vol <= 114 THEN <<6, Uint8(vol - 105)>>
    ELSE IF vol <= 124 THEN <<7, Uint8(vol - 125)>>
    ELSE IF vol <= 127 THEN <<0, 0>>
    ELSE IF vol <= 128 THEN <<8, Uint8(vol - 128)>>
    ELSE IF vol <= 202 THEN <<9, Uint8(vol - 129)>>
    ELSE IF vol <= 212 THEN <<10, Uint8(vol - 203)>>
    ELSE <<0, 0>>

----------------------------------------------------------------------------
(* ItPattern.ToCommon: the pieces of one pass of the inner loop *)

PmaskNote == 1
PmaskIns == 2
PmaskVol == 4
PmaskEffect == 8
PmaskLastNote == 16
PmaskLastIns == 32
PmaskLastVol == 64
PmaskLastEffect == 128

Channels == 0..63

\* nextByte that returns the byte and leaves dataRead where it is
nextByteStays(data, pos) ==
    IF pos >= Len(data)
    THEN [byt |-> 0, dataRead |-> pos, short |-> TRUE]
    ELSE [byt |-> data[pos + 1], dataRead |-> pos, short |-> FALSE]

\* nextByte: the byte returned and dataRead after the call; short says that
\* no byte was left (the call then returns 0 and does not advance)
nextByte(data, pos) ==
    IF pos >= Len(data)
    THEN [byt |-> 0, dataRead |-> pos, short |-> TRUE]
    ELSE [byt |-> data[pos + 1], dataRead |-> pos + 1, short |-> FALSE]

\* "slot = nextByte()" when cond holds, and the slot cleared when it does not
readIfClears(cond, data, pos, slot) ==
    IF cond THEN nextByte(data, pos)
    ELSE [byt |-> 0, dataRead |-> pos, short |-> FALSE]

\* "if cond { slot = nextByte() }": the slot's value and dataRead afterwards
readIf(cond, data, pos, slot) ==
    IF cond THEN nextByte(data, pos)
    ELSE [byt |-> slot, dataRead |-> pos, short |-> FALSE]

\* channel := int((channelSelect - 1) & 63)
selectedChannel(channelSelect) == BitAnd(Uint8(channelSelect - 1), 63)

\* mask&bits != 0
has(mask, bits) == BitAnd(mask, bits) # 0

\* the entry built from the mask and the channel's slots as they are after the
\* reads of this pass
makeEntry(channel, mask, note, ins, vol, effect, effectParam) ==
    [Channel |-> channel,
     Note |-> IF has(mask, PmaskNote + PmaskLastNote)
              THEN translateNote(note) ELSE 0,
     Instrument |-> IF has(mask, PmaskIns + PmaskLastIns) THEN ins ELSE 0,
     VolumeCommand |-> IF has(mask, PmaskVol + PmaskLastVol)
                       THEN translatePatternVolume(vol)[1] ELSE 0,
     VolumeParam |-> IF has(mask, PmaskVol + PmaskLastVol)
                     THEN translatePatternVolume(vol)[2] ELSE 0,
     Effect |-> IF has(mask, PmaskEffect + PmaskLastEffect) THEN effect ELSE 0,
     EffectParam |-> IF has(mask, PmaskEffect + PmaskLastEffect)
                     THEN effectParam ELSE 0]

\* the entry put in front of the row's entries instead of behind them
prependEntry(entries, entry) == <<entry>> \o entries

\* the entry left out when none of its fields was read or repeated
appendEntrySkipsEmpty(entries, entry) ==
    IF /\ entry.Note = 0 /\ entry.Instrument = 0
       /\ entry.VolumeCommand = 0 /\ entry.VolumeParam = 0
       /\ entry.Effect = 0 /\ entry.EffectParam = 0
    THEN entries
    ELSE Append(entries, entry)

\* patternRow.Entries = append(patternRow.Entries, entry)
appendEntry(entries, entry) == Append(entries, entry)

\* a row without entries given one empty entry of channel 0
appendRowPlaceholder(rows, entries) ==
    Append(rows, [Entries |-> IF entries = <<>>
                              THEN <<makeEntry(0, 0, 0, 0, 0, 0, 0)>>
                              ELSE entries])

\* a row without entries left out of the pattern
appendRowSkipsEmpty(rows, entries) ==
    IF entries = <<>> THEN rows ELSE Append(rows, [Entries |-> entries])

\* p.Rows = append(p.Rows, patternRow)
appendRow(rows, entries) == Append(rows, [Entries |-> entries])

\* the per-channel arrays as the call before left them, were they declared
\* outside the function (all zero before the first call)
sharedChannelState ==
    IF lastMask = <<>>
    THEN [lastMask |-> [c \in Channels |-> 0], lastNote |-> [c \in Channels |-> 0],
          lastIns |-> [c \in Channels |-> 0], lastVol |-> [c \in Channels |-> 0],
          lastEffect |-> [c \in Channels |-> 0],
          lastEffectParam |-> [c \in Channels |-> 0]]
    ELSE [lastMask |-> lastMask, lastNote |-> lastNote, lastIns |-> lastIns,
          lastVol |-> lastVol, lastEffect |-> lastEffect,
          lastEffectParam |-> lastEffectParam]

\* var lastMask [64]byte ... var lastEffectParam [64]byte: the arrays are
\* locals of the call, declared without initializer, so each call gets its own
\* and they are zero
newChannelState ==
    [lastMask |-> [c \in Channels |-> 0], lastNote |-> [c \in Channels |-> 0],
     lastIns |-> [c \in Channels |-> 0], lastVol |-> [c \in Channels |-> 0],
     lastEffect |-> [c \in Channels |-> 0],
     lastEffectParam |-> [c \in Channels |-> 0]]

\* ItPattern.ToCommon as a call. The locals of the call at its start
patternStart ==
    [dataRead |-> 0, last |-> newChannelState, channels |-> 0, row |-> 0,
     patternRow |-> <<>>, p |-> [Rows |-> <<>>, Channels |-> 0]]

\* one pass of the inner loop on the locals s: the row ended by channelSelect
\* 0, or the entry of the selected channel appended
patternPass(pat, s) ==
    LET cs == nextByte(pat.Data, s.dataRead)
        c == selectedChannel(cs.byt)
        m == readIf(has(cs.byt, 128), pat.Data, cs.dataRead, s.last.lastMask[c])
        n == readIf(has(m.byt, PmaskNote), pat.Data, m.dataRead,
                    s.last.lastNote[c])
        i == readIf(has(m.byt, PmaskIns), pat.Data, n.dataRead, s.last.lastIns[c])
        v == readIf(has(m.byt, PmaskVol), pat.Data, i.dataRead, s.last.lastVol[c])
        e == readIf(has(m.byt, PmaskEffect), pat.Data, v.dataRead,
                    s.last.lastEffect[c])
        ep == readIf(has(m.byt, PmaskEffect), pat.Data, e.dataRead,
                     s.last.lastEffectParam[c])
    IN  IF cs.byt = 0
        THEN [s EXCEPT !.dataRead = cs.dataRead,
                       !.p.Rows = appendRow(@, s.patternRow),
                       !.patternRow = <<>>,
                       !.row = @ + 1]
        ELSE [s EXCEPT !.dataRead = ep.dataRead,
                       !.channels = IF c >= @ THEN c + 1 ELSE @,
                       !.last.lastMask[c] = m.byt,
                       !.last.lastNote[c] = n.byt,
                       !.last.lastIns[c] = i.byt,
                       !.last.lastVol[c] = v.byt,
                       !.last.lastEffect[c] = e.byt,
                       !.last.lastEffectParam[c] = ep.byt,
                       !.patternRow =
                           appendEntry(@, makeEntry(c, m.byt, n.byt, i.byt, v.byt,
                                                    e.byt, ep.byt))]

\* the loops over the rows, from the locals s: at most n more passes, which
\* is all of them when n is the number of bytes left and of rows left
RECURSIVE patternPasses(_, _, _)
patternPasses(pat, s, n) ==
    IF s.row >= pat.Rows \/ n = 0 THEN s
    ELSE patternPasses(pat, patternPass(pat, s), n - 1)

\* the pattern returned by the call on the locals s
patternFrom(pat, s) ==
    LET t == patternPasses(pat, s, Len(pat.Data) + pat.Rows)
    IN [t.p EXCEPT !.Channels = t.channels]

----------------------------------------------------------------------------
(* Idle values of each component *)

\* no read taken in two parts yet. Such a read is recorded with the widths a
\* and b of its parts, what read(a + b) gives from the same stream (value,
\* error and the bits handed out after it) and what read(a) and then read(b)
\* give (the two values, whether both succeeded, the bits handed out)
NoSplit ==
    [taken |-> FALSE, a |-> 0, b |-> 0,
     whole |-> [val |-> 0, err |-> nil, position |-> 0],
     parts |-> [low |-> 0, high |-> 0, ok |-> TRUE, position |-> 0]]

BitsIdle ==
    /\ bs = createBitstream(<<>>)
    /\ bsLast = [width |-> 0, val |-> 0, err |-> Unset]
    /\ bsConsumed = 0
    /\ hsplit = NoSplit

NoStep ==
    [kind |-> "none", from |-> 0, sel |-> 0, channel |-> 0, mask |-> 0,
     afterMask |-> 0,
     prev |-> [mask |-> 0, note |-> 0, ins |-> 0, vol |-> 0,
               effect |-> 0, effectParam |-> 0],
     short |-> FALSE, entry |-> makeEntry(0, 0, 0, 0, 0, 0, 0)]

PatternStart ==
    /\ ppc = "rows"
    /\ dataRead = 0
    /\ lastMask = [c \in Channels |-> 0]
    /\ lastNote = [c \in Channels |-> 0]
    /\ lastIns = [c \in Channels |-> 0]
    /\ lastVol = [c \in Channels |-> 0]
    /\ lastEffect = [c \in Channels |-> 0]
    /\ lastEffectParam = [c \in Channels |-> 0]
    /\ channels = 0
    /\ row = 0
    /\ patternRow = <<>>
    /\ p = [Rows |-> <<>>, Channels |-> 0]
    /\ hstep = NoStep
    /\ hshort = FALSE
    /\ hrow = <<>>
    /\ hrows = <<>>

\* no pattern is being unpacked: no array is allocated
PatternIdle ==
    /\ itp = [Data |-> <<>>, Rows |-> 0]
    /\ ppc = "idle"
    /\ dataRead = 0
    /\ lastMask = <<>>
    /\ lastNote = <<>>
    /\ lastIns = <<>>
    /\ lastVol = <<>>
    /\ lastEffect = <<>>
    /\ lastEffectParam = <<>>
    /\ channels = 0
    /\ row = 0
    /\ patternRow = <<>>
    /\ p = [Rows |-> <<>>, Channels |-> 0]
    /\ hstep = NoStep
    /\ hshort = FALSE
    /\ hrow = <<>>
    /\ hrows = <<>>

CodecIdle ==
    /\ codec = [It215 |-> FALSE, Is16 |-> FALSE]
    /\ r = [data |-> <<>>, pos |-> 0]
    /\ sampleLength = 0
    /\ dpc = "idle"
    /\ remainingLength = 0
    /\ totalData = <<>>
    /\ dataSource = createBitstream(<<>>)
    /\ curLength = 0
    /\ width = 0
    /\ mem1 = 0
    /\ mem2 = 0
    /\ decoded = <<>>
    /\ dret = [data |-> <<>>, err |-> nil]

\* no pass of decodeChunk's loop yet. A pass is recorded with its mode, what
\* it did (kind), what was there before it (the width, the bit position of
\* the stream, mem1 and the number of samples), the value v read and, in Mode
\* A's escape, the value fetched after it
NoPass ==
    [mode |-> "none", kind |-> "none", width |-> 0, from |-> 0, mem1 |-> 0,
     count |-> 0, v |-> 0, fetched |-> 0]

SampleIdle ==
    /\ itsData = <<>>
    /\ hchunks = <<>>
    /\ hpass = NoPass
    /\ hwrites = <<>>

ModuleIdle ==
    /\ itm = [Patterns |-> <<>>]
    /\ mpc = "idle"
    /\ mnext = 0
    /\ mchannels = 0
    /\ module = [Patterns |-> <<>>, Channels |-> 0, ChannelSettings |-> 0]

TranslateIdle ==
    /\ xin = 0
    /\ xnote = [applied |-> FALSE, note |-> 0]
    /\ xvol = [applied |-> FALSE, command |-> 0, param |-> 0]

----------------------------------------------------------------------------
(* SpecBitstream: a stream over any source, read with any sequence of widths *)

\* byte values of the sources: one bit, an asymmetric pattern (10110010), all bits
SrcBytes == {1, 178, 255}

\* widths asked of read: the illegal ones on both sides, the extremes 0 and 31,
\* the codec's widths (3, 4, 9, 17) and widths around the byte size
ReadWidths == {0 - 1, 0, 1, 3, 4, 7, 8, 9, 12, 17, 31, 32}

InitBitstream ==
    /\ \E source \in SeqsUpTo(SrcBytes, MaxSrcLen) : bs = createBitstream(source)
    /\ bsLast = [width |-> 0, val |-> 0, err |-> Unset]
    /\ bsConsumed = 0
    /\ hsplit = NoSplit
    /\ TranslateIdle
    /\ PatternIdle
    /\ CodecIdle
    /\ SampleIdle
    /\ ModuleIdle

Read ==
    \E n \in ReadWidths : \E rd \in {read(bs, n)} :
        /\ bs' = rd.bs
        /\ bsLast' = [width |-> n, val |-> rd.val, err |-> rd.err]
        /\ bsConsumed' = IF rd.err = nil THEN bsConsumed + n ELSE bsConsumed
        /\ UNCHANGED <<hsplit, xvars, pvars, cvars, svars, hvars, mvars>>

NextBitstream == Read

SpecBitstream == InitBitstream /\ [][NextBitstream]_vars

----------------------------------------------------------------------------
(* SpecSplit: the bitstream read in pairs of calls, read(a) then read(b),   *)
(* each pair set against the one call read(a + b) on the same stream        *)

\* the pairs of widths: across and inside bytes, the codec's widths 9 and 17
\* with the fetch widths 3 and 4, and the extremes 0 and 31
SplitWidths ==
    {<<0, 0>>, <<1, 8>>, <<4, 8>>, <<3, 4>>, <<8, 8>>, <<9, 3>>, <<9, 17>>,
     <<17, 4>>, <<12, 12>>, <<0, 31>>, <<31, 0>>}

\* read(a); if that succeeds, read(b). The stream is left where the two
\* calls leave it
ReadInParts ==
    \E ab \in SplitWidths :
    \E whole \in {read(bs, ab[1] + ab[2])} :
    \E first \in {read(bs, ab[1])} :
    \E second \in {IF first.err = nil THEN read(first.bs, ab[2]) ELSE first} :
        /\ bs' = second.bs
        /\ bsLast' = [width |-> IF first.err = nil THEN ab[2] ELSE ab[1],
                      val |-> second.val, err |-> second.err]
        /\ bsConsumed' = bsConsumed
                           + (IF first.err = nil THEN ab[1] ELSE 0)
                           + (IF second.err = nil THEN ab[2] ELSE 0)
        /\ hsplit' = [taken |-> TRUE, a |-> ab[1], b |-> ab[2],
                      whole |-> [val |-> whole.val, err |-> whole.err,
                                 position |-> position(whole.bs)],
                      parts |-> [low |-> first.val,
                                 high |-> IF first.err = nil THEN second.val
                                          ELSE 0,
                                 ok |-> second.err = nil,
                                 position |-> position(second.bs)]]
        /\ UNCHANGED <<xvars, pvars, cvars, svars, hvars, mvars>>

NextSplit == ReadInParts

SpecSplit == InitBitstream /\ [][NextSplit]_vars

----------------------------------------------------------------------------
(* SpecTranslate: the two translations applied to every raw byte *)

InitTranslate ==
    /\ xin \in Byte
    /\ xnote = [applied |-> FALSE, note |-> 0]
    /\ xvol = [applied |-> FALSE, command |-> 0, param |-> 0]
    /\ BitsIdle
    /\ PatternIdle
    /\ CodecIdle
    /\ SampleIdle
    /\ ModuleIdle

TranslateNote ==
    /\ ~xnote.applied
    /\ xnote' = [applied |-> TRUE, note |-> translateNote(xin)]
    /\ UNCHANGED <<xin, xvol, bvars, pvars, cvars, svars, hvars, mvars>>

TranslatePatternVolume ==
    /\ ~xvol.applied
    /\ xvol' = LET cp == translatePatternVolume(xin)
               IN [applied |-> TRUE, command |-> cp[1], param |-> cp[2]]
    /\ UNCHANGED <<xin, xnote, bvars, pvars, cvars, svars, hvars, mvars>>

NextTranslate == TranslateNote \/ TranslatePatternVolume

SpecTranslate == InitTranslate /\ [][NextTranslate]_vars

----------------------------------------------------------------------------
(* SpecPattern: ItPattern.ToCommon on any packed data and row count *)

\* byte values of the packed data, each with its meaning as channel select
\* and as mask:
\*     0  ends the row                       no field
\*    48  channel 47, stored mask            repeat note, repeat instrument
\*    64  channel 63, stored mask            repeat volume
\*    83  channel 18 (82 & 63), stored mask  note and instrument present,
\*                                           repeat note, repeat volume
\*   140  channel 11, mask byte follows      volume and effect present,
\*                                           repeat effect
\*   147  channel 18, mask byte follows      note and instrument present,
\*                                           repeat note, repeat effect
PatBytes == {0, 48, 64, 83, 140, 147}

\* values of Header.Rows
PatRows == {0, 1, 2}

InitPattern ==
    /\ \E data \in SeqsUpTo(PatBytes, MaxPatLen), rows \in PatRows :
          itp = [Data |-> data, Rows |-> rows]
    /\ PatternStart
    /\ BitsIdle
    /\ TranslateIdle
    /\ CodecIdle
    /\ SampleIdle
    /\ ModuleIdle

\* a pass of the inner loop that reads a nonzero channelSelect: the nextByte
\* calls of the pass in their order (cs, m, n, i, v, e, ep), then the entry
SelectChannel ==
    /\ ppc = "rows"
    /\ row < itp.Rows
    /\ \E cs \in {nextByte(itp.Data, dataRead)} :
       /\ cs.byt # 0
       /\ \E c \in {selectedChannel(cs.byt)} :
          \E m \in {readIf(has(cs.byt, 128), itp.Data, cs.dataRead, lastMask[c])} :
          \E n \in {readIf(has(m.byt, PmaskNote), itp.Data, m.dataRead, lastNote[c])} :
          \E i \in {readIf(has(m.byt, PmaskIns), itp.Data, n.dataRead, lastIns[c])} :
          \E v \in {readIf(has(m.byt, PmaskVol), itp.Data, i.dataRead, lastVol[c])} :
          \E e \in {readIf(has(m.byt, PmaskEffect), itp.Data, v.dataRead,
                           lastEffect[c])} :
          \E ep \in {readIf(has(m.byt, PmaskEffect), itp.Data, e.dataRead,
                            lastEffectParam[c])} :
          \E entry \in {makeEntry(c, m.byt, n.byt, i.byt, v.byt, e.byt, ep.byt)} :
          \E short \in {m.short \/ n.short \/ i.short \/ v.short \/ e.short
                           \/ ep.short} :
             /\ channels' = IF c >= channels THEN c + 1 ELSE channels
             /\ lastMask' = [lastMask EXCEPT ![c] = m.byt]
             /\ lastNote' = [lastNote EXCEPT ![c] = n.byt]
             /\ lastIns' = [lastIns EXCEPT ![c] = i.byt]
             /\ lastVol' = [lastVol EXCEPT ![c] = v.byt]
             /\ lastEffect' = [lastEffect EXCEPT ![c] = e.byt]
             /\ lastEffectParam' = [lastEffectParam EXCEPT ![c] = ep.byt]
             /\ dataRead' = ep.dataRead
             /\ patternRow' = appendEntry(patternRow, entry)
             /\ hstep' = [kind |-> "entry", from |-> dataRead, sel |-> cs.byt,
                          channel |-> c, mask |-> m.byt,
                          afterMask |-> m.dataRead,
                          prev |-> [mask |-> lastMask[c], note |-> lastNote[c],
                                    ins |-> lastIns[c], vol |-> lastVol[c],
                                    effect |-> lastEffect[c],
                                    effectParam |-> lastEffectParam[c]],
                          short |-> short, entry |-> entry]
             /\ hshort' = (hshort \/ short)
             /\ hrow' = Append(hrow, [from |-> dataRead, sel |-> cs.byt,
                                      mask |-> m.byt])
    /\ UNCHANGED <<itp, ppc, row, p, hrows, bvars, xvars, cvars, svars, hvars, mvars>>

\* a pass of the inner loop that reads channelSelect = 0: the row is finished
EndRow ==
    /\ ppc = "rows"
    /\ row < itp.Rows
    /\ \E cs \in {nextByte(itp.Data, dataRead)} :
       /\ cs.byt = 0
       /\ dataRead' = cs.dataRead
       /\ p' = [p EXCEPT !.Rows = appendRow(@, patternRow)]
       /\ patternRow' = <<>>
       /\ row' = row + 1
       /\ hstep' = [NoStep EXCEPT !.kind = "endrow", !.from = dataRead,
                                  !.short = cs.short]
       /\ hshort' = (hshort \/ cs.short)
       /\ hrows' = Append(hrows, hrow)
       /\ hrow' = <<>>
    /\ UNCHANGED <<itp, ppc, lastvars, channels, bvars, xvars, cvars, svars, hvars, mvars>>

\* all rows done: p.Channels = int16(channels); return p
Return ==
    /\ ppc = "rows"
    /\ row >= itp.Rows
    /\ p' = [p EXCEPT !.Channels = channels]
    /\ ppc' = "returned"
    /\ UNCHANGED <<itp, dataRead, lastvars, channels, row, patternRow,
                   hstep, hshort, hrow, hrows, bvars, xvars, cvars, svars, hvars, mvars>>

NextPattern == SelectChannel \/ EndRow \/ Return

SpecPattern == InitPattern /\ [][NextPattern]_vars

----------------------------------------------------------------------------
(* SpecModule: the loop of ItModule.ToCommon over the patterns, each of     *)
(* them unpacked by ItPattern.ToCommon, and the channel count it leaves     *)

\* most patterns of a module
MaxPatterns == 2

\* channels = int16(p.Channels): the count of the last pattern, not the largest
maxTakesLast(a, b) == b

\* max(a, b)
max(a, b) == IF a > b THEN a ELSE b

\* m.ChannelSettings = make([]common.ChannelSetting, 64), each setting filled
\* from the header's entry of its index: a setting is known by that index
allChannelSettings == [i \in 1..64 |-> i - 1]

\* byte values of the module's patterns: the terminator and the selections of
\* the channels 0, 1 and 63, without mask byte
ModBytes == {0, 1, 2, 64}

\* the patterns of the modules: one row of up to two bytes, two patterns of
\* two rows that select a channel in each row, and three patterns that give
\* channel 0 a mask byte: note 60 present; the last note repeated; note 60
\* present in the first row and repeated in the second
ModPatterns ==
    {[Data |-> d, Rows |-> 1] : d \in SeqsUpTo(ModBytes, 2)}
    \cup {[Data |-> <<2, 0, 64>>, Rows |-> 2], [Data |-> <<64, 0, 2>>, Rows |-> 2]}
    \cup {[Data |-> <<129, 1, 60>>, Rows |-> 1],
          [Data |-> <<129, 16>>, Rows |-> 1],
          [Data |-> <<129, 1, 60, 0, 129, 16>>, Rows |-> 2]}

InitModule ==
    /\ itm \in [Patterns : SeqsUpTo(ModPatterns, MaxPatterns)]
    /\ mpc = "patterns"
    /\ mnext = 1
    /\ mchannels = 0
    /\ module = [Patterns |-> <<>>, Channels |-> 0,
                 ChannelSettings |-> allChannelSettings]
    /\ PatternIdle
    /\ BitsIdle
    /\ TranslateIdle
    /\ CodecIdle
    /\ SampleIdle

\* for _, pattern := range itm.Patterns: pattern.ToCommon() is entered
BeginPattern ==
    /\ mpc = "patterns"
    /\ mnext <= Len(itm.Patterns)
    /\ itp' = itm.Patterns[mnext]
    /\ ppc' = "rows"
    /\ dataRead' = 0
    /\ \E last \in {newChannelState} :
          /\ lastMask' = last.lastMask
          /\ lastNote' = last.lastNote
          /\ lastIns' = last.lastIns
          /\ lastVol' = last.lastVol
          /\ lastEffect' = last.lastEffect
          /\ lastEffectParam' = last.lastEffectParam
    /\ channels' = 0
    /\ row' = 0
    /\ patternRow' = <<>>
    /\ p' = [Rows |-> <<>>, Channels |-> 0]
    /\ hstep' = NoStep
    /\ hshort' = FALSE
    /\ hrow' = <<>>
    /\ hrows' = <<>>
    /\ mpc' = "pattern"
    /\ UNCHANGED <<itm, mnext, mchannels, module, bvars, xvars, cvars, svars,
                   hvars>>

\* pattern.ToCommon() returned p: m.Patterns = append(m.Patterns, p);
\* channels = max(channels, int16(p.Channels)). The locals of the call are
\* gone; the per-channel arrays stay what they were in memory, where no later
\* call looks at them.
EndPattern ==
    /\ mpc = "pattern"
    /\ ppc = "returned"
    /\ module' = [module EXCEPT !.Patterns = Append(@, p)]
    /\ mchannels' = max(mchannels, Int16(p.Channels))
    /\ mnext' = mnext + 1
    /\ mpc' = "patterns"
    /\ itp' = [Data |-> <<>>, Rows |-> 0]
    /\ ppc' = "idle"
    /\ dataRead' = 0
    /\ channels' = 0
    /\ row' = 0
    /\ patternRow' = <<>>
    /\ p' = [Rows |-> <<>>, Channels |-> 0]
    /\ hstep' = NoStep
    /\ hshort' = FALSE
    /\ hrow' = <<>>
    /\ hrows' = <<>>
    /\ UNCHANGED <<itm, lastvars, bvars, xvars, cvars, svars, hvars>>

\* after the loop: m.Channels = channels;
\* m.ChannelSettings = m.ChannelSettings[:channels]
ModuleReturn ==
    /\ mpc = "patterns"
    /\ mnext > Len(itm.Patterns)
    /\ module' = [module EXCEPT
                     !.Channels = mchannels,
                     !.ChannelSettings = SubSeq(@, 1, mchannels)]
    /\ mpc' = "returned"
    /\ UNCHANGED <<itm, mnext, mchannels, pvars, bvars, xvars, cvars, svars,
                   hvars>>

NextModule ==
    \/ BeginPattern \/ SelectChannel \/ EndRow \/ Return \/ EndPattern
    \/ ModuleReturn

SpecModule == InitModule /\ [][NextModule]_vars

----------------------------------------------------------------------------
(* SpecCodec: ItSampleCodec.Decode on a chunk stream *)

\* byte values of the payloads. With the top bit of the first read set (bit 0
\* of the byte after the value), 0, 2 and 6 set the widths 1, 3 and 7, and 9,
\* 129 and 255 a width above the default; 9 holds Mode A's escape at width 3,
\* 129 Mode B's escape at width 7, 255 negative deltas; after a 0, 67 sets the
\* widths 1 and 2 and ends in an escape with one bit left to fetch.
PayloadBytes == {0, 1, 2, 6, 9, 67, 129, 255}

\* a chunk: the declared length, little-endian, then the payload
Frame(payload, declared) == <<declared % 256, declared \div 256>> \o payload

\* the streams read: nothing, half a length prefix, one chunk as declared,
\* one chunk a byte shorter than declared, one chunk followed by another byte
CodecStreams ==
    {<<>>, <<1>>}
    \cup {Frame(pl, Len(pl)) : pl \in SeqsUpTo(PayloadBytes, MaxChunkLen)}
    \cup {Frame(pl, Len(pl) + 1) : pl \in SeqsUpTo(PayloadBytes, MaxChunkLen)}
    \cup {Frame(pl, Len(pl)) \o <<255>> : pl \in SeqsUpTo(PayloadBytes, MaxChunkLen)}

InitCodec ==
    /\ codec \in [It215 : BOOLEAN, Is16 : BOOLEAN]
    /\ \E data \in CodecStreams : r = [data |-> data, pos |-> 0]
    /\ sampleLength \in 0..MaxSamples
    /\ dpc = "Decode"
    /\ remainingLength = sampleLength
    /\ totalData = <<>>
    /\ dataSource = createBitstream(<<>>)
    /\ curLength = 0
    /\ width = 0
    /\ mem1 = 0
    /\ mem2 = 0
    /\ decoded = <<>>
    /\ dret = [data |-> <<>>, err |-> nil]
    /\ BitsIdle
    /\ TranslateIdle
    /\ PatternIdle
    /\ SampleIdle
    /\ ModuleIdle

others == <<bvars, xvars, pvars, svars, hvars, mvars>>

\* the same but for the history of the passes, which the passes write
rest == <<bvars, xvars, pvars, svars, hchunks, mvars>>

\* the history of a pass of the given mode and kind that read v, and fetched
\* f after it
pass(mode, kind, v, f) ==
    [mode |-> mode, kind |-> kind, width |-> width,
     from |-> position(dataSource), mem1 |-> mem1, count |-> Len(decoded),
     v |-> v, fetched |-> f]

\* Decode returns (nil, err)
fail(err) ==
    /\ dret' = [data |-> <<>>, err |-> err]
    /\ dpc' = "returned"

\* Decode's loop, remainingLength > 0: decodeChunk is called and gets its chunk
PullChunk ==
    /\ dpc = "Decode"
    /\ remainingLength > 0
    /\ \E g \in {getChunk(r)} :
       /\ g.err = nil
       /\ r' = g.r
       /\ dataSource' = g.bs
    /\ curLength' = min(remainingLength, maxBlockLength(codec))
    /\ width' = propsOf(codec).defWidth
    /\ mem1' = 0
    /\ mem2' = 0
    /\ decoded' = <<>>
    /\ dpc' = "decodeChunk"
    /\ hpass' = NoPass
    /\ hwrites' = <<>>
    /\ UNCHANGED <<codec, sampleLength, remainingLength, totalData, dret, rest>>

\* Decode's loop, remainingLength > 0: getChunk fails, and decodeChunk and
\* Decode with it
PullChunkFails ==
    /\ dpc = "Decode"
    /\ remainingLength > 0
    /\ \E g \in {getChunk(r)} :
       /\ g.err # nil
       /\ r' = g.r
       /\ fail(g.err)
    /\ UNCHANGED <<codec, sampleLength, remainingLength, totalData, chunkvars,
                   others>>

\* Decode's loop ends: return totalData, nil
DecodeReturn ==
    /\ dpc = "Decode"
    /\ remainingLength <= 0
    /\ dret' = [data |-> totalData, err |-> nil]
    /\ dpc' = "returned"
    /\ UNCHANGED <<codec, r, sampleLength, remainingLength, totalData, chunkvars,
                   others>>

\* decodeChunk's loop ends: the chunk's samples go to Decode
ChunkReturn ==
    /\ dpc = "decodeChunk"
    /\ curLength <= 0
    /\ totalData' = totalData \o decoded
    /\ remainingLength' = remainingLength - Len(decoded)
    /\ dpc' = "Decode"
    /\ UNCHANGED <<codec, r, sampleLength, chunkvars, dret, others>>

\* a pass of decodeChunk's loop with the width above the default width
WidthError ==
    /\ dpc = "decodeChunk"
    /\ curLength > 0
    /\ widthOverDefault(codec, width)
    /\ fail(ErrDecodingError)
    /\ UNCHANGED <<codec, r, sampleLength, remainingLength, totalData, chunkvars,
                   others>>

\* a pass of decodeChunk's loop whose read of width bits fails
ReadFails ==
    /\ dpc = "decodeChunk"
    /\ curLength > 0
    /\ ~widthOverDefault(codec, width)
    /\ \E rd \in {read(dataSource, width)} :
       /\ rd.err # nil
       /\ dataSource' = rd.bs
       /\ fail(rd.err)
    /\ UNCHANGED <<codec, r, sampleLength, remainingLength, totalData,
                   curLength, width, mem1, mem2, decoded, others>>

\* the chunk's variables after write(v, topBit)
Written(w) ==
    /\ mem1' = w.mem1
    /\ mem2' = w.mem2
    /\ decoded' = w.decoded
    /\ curLength' = w.curLength

\* a pass of decodeChunk's loop that reads a value v: its three modes
\* Mode A (width <= 6), v = topBit: fetchA bits are read for the new width
ModeAChange ==
    /\ dpc = "decodeChunk"
    /\ curLength > 0
    /\ ~widthOverDefault(codec, width)
    /\ \E rd \in {read(dataSource, width)} :
       /\ rd.err = nil
       /\ width <= 6
       /\ rd.val = topBitOf(width)
       /\ \E fd \in {read(rd.bs, propsOf(codec).fetchA)} :
          /\ fd.err = nil
          /\ dataSource' = fd.bs
          /\ width' = changeWidth(width, fd.val)
          /\ hpass' = pass("A", "change", rd.val, fd.val)
    /\ UNCHANGED <<codec, r, sampleLength, remainingLength, totalData,
                   curLength, mem1, mem2, decoded, dpc, dret, hwrites, rest>>

\* Mode A, v = topBit: the read of fetchA bits fails
ModeAFetchFails ==
    /\ dpc = "decodeChunk"
    /\ curLength > 0
    /\ ~widthOverDefault(codec, width)
    /\ \E rd \in {read(dataSource, width)} :
       /\ rd.err = nil
       /\ width <= 6
       /\ rd.val = topBitOf(width)
       /\ \E fd \in {read(rd.bs, propsOf(codec).fetchA)} :
          /\ fd.err # nil
          /\ dataSource' = fd.bs
          /\ fail(fd.err)
          /\ hpass' = pass("A", "fetchfails", rd.val, 0)
    /\ UNCHANGED <<codec, r, sampleLength, remainingLength, totalData,
                   curLength, width, mem1, mem2, decoded, hwrites, rest>>

\* Mode A, any other v: a sample
ModeAWrite ==
    /\ dpc = "decodeChunk"
    /\ curLength > 0
    /\ ~widthOverDefault(codec, width)
    /\ \E rd \in {read(dataSource, width)} :
       /\ rd.err = nil
       /\ width <= 6
       /\ rd.val # topBitOf(width)
       /\ dataSource' = rd.bs
       /\ Written(write(codec, mem1, mem2, decoded, curLength, rd.val,
                        topBitOf(width)))
       /\ hpass' = pass("A", "write", rd.val, 0)
       /\ hwrites' = Append(hwrites, [v |-> rd.val, topBit |-> topBitOf(width)])
    /\ UNCHANGED <<codec, r, sampleLength, remainingLength, totalData,
                   width, dpc, dret, rest>>

\* Mode B (6 < width < defWidth), v in the window: the new width is in v
ModeBChange ==
    /\ dpc = "decodeChunk"
    /\ curLength > 0
    /\ ~widthOverDefault(codec, width)
    /\ \E rd \in {read(dataSource, width)} :
       /\ rd.err = nil
       /\ width > 6
       /\ width < propsOf(codec).defWidth
       /\ rd.val >= topBitOf(width) + propsOf(codec).lowerB
       /\ rd.val <= topBitOf(width) + propsOf(codec).upperB
       /\ dataSource' = rd.bs
       /\ width' = changeWidth(width,
                               rd.val - (topBitOf(width) + propsOf(codec).lowerB))
       /\ hpass' = pass("B", "change", rd.val, 0)
    /\ UNCHANGED <<codec, r, sampleLength, remainingLength, totalData,
                   curLength, mem1, mem2, decoded, dpc, dret, hwrites, rest>>

\* Mode B, v outside the window: a sample
ModeBWrite ==
    /\ dpc = "decodeChunk"
    /\ curLength > 0
    /\ ~widthOverDefault(codec, width)
    /\ \E rd \in {read(dataSource, width)} :
       /\ rd.err = nil
       /\ width > 6
       /\ width < propsOf(codec).defWidth
       /\ ~(/\ rd.val >= topBitOf(width) + propsOf(codec).lowerB
            /\ rd.val <= topBitOf(width) + propsOf(codec).upperB)
       /\ dataSource' = rd.bs
       /\ Written(write(codec, mem1, mem2, decoded, curLength, rd.val,
                        topBitOf(width)))
       /\ hpass' = pass("B", "write", rd.val, 0)
       /\ hwrites' = Append(hwrites, [v |-> rd.val, topBit |-> topBitOf(width)])
    /\ UNCHANGED <<codec, r, sampleLength, remainingLength, totalData,
                   width, dpc, dret, rest>>

\* Mode C (width = defWidth), top bit of v set: the other bits + 1 are the width
ModeCChange ==
    /\ dpc = "decodeChunk"
    /\ curLength > 0
    /\ ~widthOverDefault(codec, width)
    /\ \E rd \in {read(dataSource, width)} :
       /\ rd.err = nil
       /\ width > 6
       /\ width >= propsOf(codec).defWidth
       /\ BitAnd(rd.val, topBitOf(width)) # 0
       /\ dataSource' = rd.bs
       /\ width' = absoluteWidth(rd.val, topBitOf(width))
       /\ hpass' = pass("C", "change", rd.val, 0)
    /\ UNCHANGED <<codec, r, sampleLength, remainingLength, totalData,
                   curLength, mem1, mem2, decoded, dpc, dret, hwrites, rest>>

\* Mode C, top bit of v clear: a sample, not sign-extended
ModeCWrite ==
    /\ dpc = "decodeChunk"
    /\ curLength > 0
    /\ ~widthOverDefault(codec, width)
    /\ \E rd \in {read(dataSource, width)} :
       /\ rd.err = nil
       /\ width > 6
       /\ width >= propsOf(codec).defWidth
       /\ BitAnd(rd.val, topBitOf(width)) = 0
       /\ dataSource' = rd.bs
       /\ Written(write(codec, mem1, mem2, decoded, curLength, rd.val, 0))
       /\ hpass' = pass("C", "write", rd.val, 0)
       /\ hwrites' = Append(hwrites, [v |-> rd.val, topBit |-> 0])
    /\ UNCHANGED <<codec, r, sampleLength, remainingLength, totalData,
                   width, dpc, dret, rest>>

\* ReadItSample, compressed and mono: Decode gave the channel's samples, which
\* are stored as they are (16-bit) or narrowed to int8 (8-bit)
StoreSample ==
    /\ dpc = "returned"
    /\ dret.err = nil
    /\ itsData' = Append(itsData, IF codec.Is16 THEN dret.data
                                  ELSE narrow8(dret.data))
    /\ dpc' = "stored"
    /\ UNCHANGED <<codec, r, sampleLength, remainingLength, totalData, chunkvars,
                   dret, bvars, xvars, pvars, hvars, mvars>>

\* ReadItSample: Decode failed, its is returned with the error, nothing stored
StoreFails ==
    /\ dpc = "returned"
    /\ dret.err # nil
    /\ dpc' = "failed"
    /\ UNCHANGED <<codec, r, sampleLength, remainingLength, totalData, chunkvars,
                   dret, others>>

NextCodec ==
    \/ PullChunk \/ PullChunkFails \/ DecodeReturn \/ ChunkReturn
    \/ WidthError \/ ReadFails
    \/ ModeAChange \/ ModeAFetchFails \/ ModeAWrite
    \/ ModeBChange \/ ModeBWrite
    \/ ModeCChange \/ ModeCWrite
    \/ StoreSample \/ StoreFails

SpecCodec == InitCodec /\ [][NextCodec]_vars

----------------------------------------------------------------------------
(* SpecBlocks: Decode with every call of decodeChunk as one step, on        *)
(* streams whose first chunk fills a whole block                            *)

\* totalData = chunk, the samples of the earlier chunks dropped
appendChunkReplaces(total, chunk) == chunk

\* totalData = append(totalData, chunk...)
appendChunk(total, chunk) == total \o chunk

\* byte values of the short payloads: zeros, a width change, ones
ShortBytes == {0, 2, 255}

\* a payload that fills a block and has bits left: the sample 1 at the
\* default width, the width set to 1, then a 0 bit for every further sample
\* of the block and for up to six samples more
FullBlock(c) ==
    (IF c.Is16 THEN <<1, 0, 0, 0, 2>> ELSE <<1, 0, 2>>)
        \o [i \in 1..(maxBlockLength(c) \div 8) |-> 0]

\* what follows the first chunk of a long stream: nothing, half a length
\* prefix, a chunk whose payload is shorter than declared, a chunk of two
\* samples (65535 or 255, then the same again), the same chunk with a byte
\* after it, a chunk without payload
Tails ==
    {<<>>, <<5>>, Frame(<<255, 255>>, 5), Frame(<<255, 255, 0, 0, 0>>, 5),
     Frame(<<255, 255, 0, 0, 0>>, 5) \o <<7>>, Frame(<<>>, 0)}

\* the streams of one chunk, whole, a byte short or with a byte after it,
\* and the streams without a whole length prefix
ShortStreams ==
    {<<>>, <<1>>}
    \cup {Frame(pl, Len(pl)) : pl \in SeqsUpTo(ShortBytes, MaxChunkLen)}
    \cup {Frame(pl, Len(pl) + 1) : pl \in SeqsUpTo(ShortBytes, MaxChunkLen)}
    \cup {Frame(pl, Len(pl)) \o <<7>> : pl \in SeqsUpTo(ShortBytes, MaxChunkLen)}

\* Decode is entered with the reader at the start of the stream
DecodeStart(c, data, length) ==
    /\ codec = c
    /\ r = [data |-> data, pos |-> 0]
    /\ sampleLength = length
    /\ dpc = "Decode"
    /\ remainingLength = length
    /\ totalData = <<>>
    /\ dataSource = createBitstream(<<>>)
    /\ curLength = 0
    /\ width = 0
    /\ mem1 = 0
    /\ mem2 = 0
    /\ decoded = <<>>
    /\ dret = [data |-> <<>>, err |-> nil]
    /\ hchunks = <<>>
    /\ hpass = NoPass
    /\ hwrites = <<>>

\* short streams for up to MaxSamples samples with every codec; with the
\* 16-bit codecs a full block and a tail, for two samples more than the
\* block holds; with the 8-bit It215 codec a full block and a tail, for one
\* sample more
InitBlocks ==
    /\ \/ \E c \in [It215 : BOOLEAN, Is16 : BOOLEAN], data \in ShortStreams,
             length \in 0..MaxSamples :
             DecodeStart(c, data, length)
       \/ \E c \in [It215 : BOOLEAN, Is16 : {TRUE}], tail \in Tails :
             DecodeStart(c, Frame(FullBlock(c), Len(FullBlock(c))) \o tail,
                         maxBlockLength(c) + 2)
       \/ \E c \in [It215 : {TRUE}, Is16 : {FALSE}],
             tail \in {<<>>, Frame(<<255, 0, 0>>, 3)} :
             DecodeStart(c, Frame(FullBlock(c), Len(FullBlock(c))) \o tail,
                         maxBlockLength(c) + 1)
    /\ itsData = <<>>
    /\ BitsIdle
    /\ TranslateIdle
    /\ PatternIdle
    /\ ModuleIdle

\* the locals of decodeChunk as the call leaves them
Left(s) ==
    /\ dataSource' = s.dataSource
    /\ curLength' = s.curLength
    /\ width' = s.width
    /\ mem1' = s.mem1
    /\ mem2' = s.mem2
    /\ decoded' = s.decoded

\* Decode's loop, remainingLength > 0: decodeChunk returns a chunk, which is
\* appended and counted
DecodeChunk ==
    /\ dpc = "Decode"
    /\ remainingLength > 0
    /\ \E d \in {decodeChunk(codec, r, remainingLength)} :
       /\ d.err = nil
       /\ r' = d.r
       /\ Left(d.locals)
       /\ totalData' = appendChunk(totalData, d.chunk)
       /\ remainingLength' = remainingLength - Len(d.chunk)
       /\ hchunks' = Append(hchunks, [pos |-> r.pos, asked |-> remainingLength,
                                      n |-> Len(d.chunk), err |-> nil])
    /\ UNCHANGED <<codec, sampleLength, dpc, dret, hpass, hwrites, bvars, xvars,
                   pvars, svars, mvars>>

\* Decode's loop, remainingLength > 0: decodeChunk returns an error, and
\* Decode returns it with no samples
DecodeChunkFails ==
    /\ dpc = "Decode"
    /\ remainingLength > 0
    /\ \E d \in {decodeChunk(codec, r, remainingLength)} :
       /\ d.err # nil
       /\ r' = d.r
       /\ Left(d.locals)
       /\ fail(d.err)
       /\ hchunks' = Append(hchunks, [pos |-> r.pos, asked |-> remainingLength,
                                      n |-> 0, err |-> d.err])
    /\ UNCHANGED <<codec, sampleLength, remainingLength, totalData, hpass,
                   hwrites, bvars, xvars, pvars, svars, mvars>>

NextBlocks == DecodeChunk \/ DecodeChunkFails \/ DecodeReturn

SpecBlocks == InitBlocks /\ [][NextBlocks]_vars

\* The two views of decodeChunk agree: what Decode returns in SpecCodec, pass
\* by pass, is what the call as one step gives for the same stream (within
\* the bounds of SpecCodec, Decode makes one call).
PassesAgreeWithCall ==
    (dpc = "returned" /\ sampleLength > 0) =>
        \E d \in {decodeChunk(codec, [data |-> r.data, pos |-> 0],
                               sampleLength)} :
            /\ dret.err = d.err
            /\ dret.data = d.chunk
            /\ r = d.r

----------------------------------------------------------------------------
(* Claims on the bitstream *)

\* stream bit k of a source: bit (k mod 8) of byte (k div 8)
StreamBit(source, k) == Bit(source[(k \div 8) + 1], k % 8)

\* the number whose bit j (0 <= j < w) is stream bit (from + j)
StreamValue(source, from, w) ==
    LET f[j \in 0..w] == IF j = w THEN 0
                         ELSE StreamBit(source, from + j) * Pow2(j) + f[j + 1]
    IN f[0]

\* C1: the i-th successful read, of width wi, returns the number whose bit j
\* (0 <= j < wi) is stream bit (w1 + ... + w(i-1) + j), stream bit k being bit
\* (k mod 8) of source byte (k div 8); the result has no bit at or above wi.
C1_ReadReturnsStreamBits ==
    bsLast.err = nil =>
        /\ bsLast.val =
               StreamValue(bs.source, bsConsumed - bsLast.width, bsLast.width)
        /\ \A j \in bsLast.width..30 : Bit(bsLast.val, j) = 0

\* a successful 9-bit read that starts inside a byte, after earlier reads, and
\* returns neither all zeros nor all ones
C1_Witness ==
    /\ bsLast.err = nil
    /\ bsLast.width = 9
    /\ (bsConsumed - 9) % 8 = 3
    /\ bsLast.val \notin {0, 511}

UnreadBefore ==
    8 * Len(bs.source)
      - (IF bsLast.err = nil THEN bsConsumed - bsLast.width ELSE bsConsumed)

\* C17: read(width) with 0 <= width < 32 fails with ErrEndOfStream exactly
\* when fewer than width unread bits remain (8 * len(source) minus the bits
\* consumed by earlier successful reads) and succeeds otherwise; no returned
\* value holds bits that are not in the source.
C17_EndOfStreamExactly ==
    (bsLast.err # Unset /\ bsLast.width \in 0..31) =>
        /\ bsLast.err \in {nil, ErrEndOfStream}
        /\ (bsLast.err = ErrEndOfStream) <=> (UnreadBefore < bsLast.width)
        /\ bsConsumed <= 8 * Len(bs.source)

\* a read of 9 bits failed with 8 bits left unread, after a successful read
C17_Witness ==
    /\ bsLast.err = ErrEndOfStream
    /\ bsLast.width = 9
    /\ bsConsumed > 0
    /\ UnreadBefore = 8

----------------------------------------------------------------------------
(* Claims on the sample codec *)

\* C2: for every sampleLength >= 0 and every chunk stream, Decode returns an
\* error or exactly sampleLength samples, never fewer and never more.
C2_ExactLengthOrError ==
    dpc = "returned" => (dret.err # nil \/ Len(dret.data) = sampleLength)

\* Decode returned two samples without error, the second one not 0
C2_Witness ==
    /\ dpc = "returned"
    /\ dret.err = nil
    /\ sampleLength = 2
    /\ Len(dret.data) = 2
    /\ dret.data[2] # 0
    /\ codec.It215

\* C15: decodeChunk never reads with a width above the default width W0 (9
\* for 8-bit, 17 for 16-bit): whenever the width exceeds W0 while samples of
\* the block are outstanding, the next step of Decode is to fail with
\* ErrDecodingError and no samples, the chunk's bitstream untouched.
C15_NoReadAboveDefaultWidth ==
    [][(dpc = "decodeChunk" /\ curLength > 0
          /\ width > (IF codec.Is16 THEN 17 ELSE 9)) =>
          /\ dpc' = "returned"
          /\ dret' = [data |-> <<>>, err |-> ErrDecodingError]
          /\ dataSource' = dataSource]_vars

\* an 8-bit Decode failed on a width above 9 set by the chunk's second value,
\* after the chunk had given a sample
C15_Witness ==
    /\ dpc = "returned"
    /\ dret.err = ErrDecodingError
    /\ ~codec.Is16
    /\ width > 9
    /\ Len(decoded) = 1
    /\ curLength = 1

\* the accumulator Decode emits: mem2 when It215 is set, otherwise mem1
Selected == IF codec.It215 THEN mem2 ELSE mem1

\* C18 as claimed: every element emitted by Decode is the selected accumulator
\* (mem2 when It215 is set, otherwise mem1) truncated to the sample's native
\* width: the signed 8-bit range when Is16 is false, the signed 16-bit range
\* when it is true. (The last element of decoded is the last emission, and
\* the accumulators change on emissions only.)
C18_EmittedInNativeWidth ==
    (dpc \in {"decodeChunk", "Decode", "returned"} /\ decoded # <<>>) =>
        Last(decoded) = IF codec.Is16 THEN Int16(Selected) ELSE Int8(Selected)

\* C18 as amended: every element emitted by Decode is the selected
\* accumulator truncated to the signed 16-bit range, whether Is16 is set or
\* not; for 8-bit samples it is ReadItSample that narrows Decode's elements
\* to the signed 8-bit range.
C18_EmittedAsInt16 ==
    /\ (decoded # <<>>) => Last(decoded) = Int16(Selected)
    /\ (dpc = "stored") =>
          /\ Len(Last(itsData)) = Len(totalData)
          /\ decoded # <<>> =>
                Last(Last(itsData)) =
                    IF codec.Is16 THEN Int16(Selected) ELSE Int8(Selected)

\* an 8-bit It215 sample of two elements was stored whose last accumulator,
\* 510, is outside the 8-bit range: Decode emitted 510, ReadItSample stored -2
C18_Witness ==
    /\ dpc = "stored"
    /\ ~codec.Is16
    /\ codec.It215
    /\ Len(decoded) = 2
    /\ mem2 > 127
    /\ Last(decoded) = mem2
    /\ Last(Last(itsData)) = Int8(mem2)
    /\ Last(Last(itsData)) # mem2

\* the block ceiling: 32768 samples of 8 bits, 16384 samples of 16 bits
Ceiling == IF codec.Is16 THEN 16384 ELSE 32768

\* the chunks Decode got samples from
Decoded == {k \in 1..Len(hchunks) : hchunks[k].err = nil}

\* C11: each chunk pulled by Decode that decodes successfully contributes
\* exactly min(remaining_length, max_block_length) samples, max_block_length
\* being 32768 when Is16 is false and 16384 when it is true: no block
\* contributes more than the ceiling.
C11_BlockContributesMin ==
    \A k \in Decoded :
        /\ hchunks[k].n = (IF hchunks[k].asked < Ceiling THEN hchunks[k].asked
                           ELSE Ceiling)
        /\ hchunks[k].n <= Ceiling

\* a 16-bit Decode of 16386 samples got 16384 of them from its first chunk
\* and 2 from its second
C11_Witness ==
    /\ codec.Is16
    /\ Len(hchunks) = 2
    /\ Decoded = {1, 2}
    /\ hchunks[1].asked = 16386
    /\ hchunks[1].n = 16384
    /\ hchunks[2].n = 2
    /\ Len(totalData) = 16386

\* the payload of the chunk whose length prefix is at pos
PayloadAt(data, pos) ==
    SubSeq(data, pos + 3, pos + 2 + data[pos + 1] + 256 * data[pos + 2])

\* the number of samples the chunks before chunk k gave
RECURSIVE SamplesBefore(_)
SamplesBefore(k) ==
    IF k <= 1 THEN 0 ELSE SamplesBefore(k - 1) + hchunks[k - 1].n

\* the samples chunk k gave, as Decode holds them
SamplesOf(k) ==
    SubSeq(totalData, SamplesBefore(k) + 1, SamplesBefore(k) + hchunks[k].n)

\* n samples decoded from a payload alone, with the width at the default
\* width and both accumulators at 0
Isolated(c, payload, n) ==
    chunkLoop(c, [dataSource |-> createBitstream(payload), curLength |-> n,
                  width |-> IF c.Is16 THEN 17 ELSE 9,
                  mem1 |-> 0, mem2 |-> 0, decoded |-> <<>>, err |-> nil]).decoded

\* C12: blocks are isolated: every chunk starts with the width at
\* default_width and mem1 and mem2 at 0, so that its samples depend on its
\* payload, the number of samples asked of it and the flags only: a chunk
\* decoded after other chunks gives the samples it gives as the first block.
C12_BlocksIsolated ==
    \A k \in Decoded :
        SamplesOf(k) =
            Isolated(codec, PayloadAt(r.data, hchunks[k].pos), hchunks[k].n)

\* the second chunk of a 16-bit It215 stream starts at -1, the first having
\* left mem1 at 1 and mem2 at 16384
C12_Witness ==
    /\ codec.Is16
    /\ codec.It215
    /\ Len(hchunks) = 2
    /\ Decoded = {1, 2}
    /\ totalData[16384] = 16384
    /\ totalData[16385] = 0 - 1
    /\ totalData[16386] = 0 - 2

\* a whole chunk lies at pos: its length prefix and the payload it declares
WholeChunkAt(data, pos) ==
    /\ pos + 2 <= Len(data)
    /\ pos + 2 + data[pos + 1] + 256 * data[pos + 2] <= Len(data)

\* C13: Decode fails, with a non-nil error and no samples, whenever the chunk
\* stream ends - no further 2-byte length prefix, or a payload shorter than
\* its declared length - before sampleLength samples have been produced.
C13_StreamEndIsAnError ==
    \A k \in 1..Len(hchunks) :
        ~WholeChunkAt(r.data, hchunks[k].pos) =>
            /\ k = Len(hchunks)
            /\ hchunks[k].asked > 0
            /\ dpc = "returned"
            /\ dret.err \in {EOF, ErrUnexpectedEOF}
            /\ dret.data = <<>>

\* a Decode of 16386 samples got a full block from the first chunk, found
\* the stream at its end and returned the error with no samples
C13_Witness ==
    /\ Len(hchunks) = 2
    /\ Decoded = {1}
    /\ hchunks[1].n = 16384
    /\ hchunks[2].pos = Len(r.data)
    /\ Len(totalData) = 16384
    /\ dret = [data |-> <<>>, err |-> EOF]

\* the samples the chunks gave so far
SamplesGiven == SamplesBefore(Len(hchunks) + 1)

\* C14: a chunk that yields fewer samples than were asked of it does not make
\* Decode fail as long as more chunks follow: Decode keeps the samples the
\* chunk produced, pulls the next chunk - where the last ended, for the
\* samples still missing - and goes on until sampleLength samples are there.
C14_ShortYieldContinues ==
    /\ Len(totalData) = SamplesGiven
    /\ \A k \in Decoded :
          hchunks[k].n < hchunks[k].asked =>
              /\ dpc = "returned" => k < Len(hchunks)
              /\ k < Len(hchunks) =>
                    /\ hchunks[k + 1].asked = hchunks[k].asked - hchunks[k].n
                    /\ hchunks[k + 1].pos =
                          hchunks[k].pos + 2
                            + Len(PayloadAt(r.data, hchunks[k].pos))
    /\ dpc = "returned" =>
          \/ dret.err # nil /\ hchunks # <<>> /\ Last(hchunks).err = dret.err
          \/ dret.err = nil /\ dret.data = totalData
                /\ Len(totalData) = sampleLength

\* the first chunk gave 16384 of the 16386 samples asked of it, the second
\* chunk the other two, and Decode returned them all
C14_Witness ==
    /\ dpc = "returned"
    /\ dret.err = nil
    /\ Len(hchunks) = 2
    /\ hchunks[1].n < hchunks[1].asked
    /\ hchunks[2].asked = 2
    /\ Len(dret.data) = 16386
    /\ dret.data[1] = 1
    /\ dret.data[16385] # 0

----------------------------------------------------------------------------
(* Claims on the translations *)

VolumeTable ==
    << <<0, 64, 1, 0>>, <<65, 74, 2, 65>>, <<75, 84, 3, 75>>, <<85, 94, 4, 85>>,
       <<95, 104, 5, 95>>, <<105, 114, 6, 105>>, <<115, 124, 7, 125>>,
       <<128, 128, 8, 128>>, <<129, 202, 9, 129>>, <<203, 212, 10, 203>> >>

DocumentedParams(command) ==
    CASE command = 0 -> {0}
      [] command \in {1, 8} -> 0..64
      [] command \in {2, 3, 4, 5, 6, 7, 9, 10} -> 0..9
      [] OTHER -> {}

\* C19: for every raw volume byte the param returned by translatePatternVolume
\* lies in the range documented for the returned command on PatternEntry:
\* 0..64 for commands 1 and 8, 0..9 for commands 2..7, 9 and 10, 0 for 0.
C19_VolumeParamInRange ==
    xvol.applied => xvol.param \in DocumentedParams(xvol.command)

----------------------------------------------------------------------------
(* Claims on the pattern decoder *)

Flag(b) == IF b THEN 1 ELSE 0

\* the byte at 0-based index k of the packed data exists and is val
InStream(k, val) == k < Len(itp.Data) /\ itp.Data[k + 1] = val

\* 0-based index of the first byte after the channel select and the mask byte
\* of the last pass, and of the bytes of each field, as the format lays them out
FieldsAt == hstep.from + 1 + Flag(hstep.sel >= 128)
NoteAt == FieldsAt
InsAt == NoteAt + Bit(lastMask[hstep.channel], 0)
VolAt == InsAt + Bit(lastMask[hstep.channel], 1)
EffectAt == VolAt + Bit(lastMask[hstep.channel], 2)
EntryEnd == EffectAt + 2 * Bit(lastMask[hstep.channel], 3)

\* all channel selections so far, in stream order, the last pass's last
RECURSIVE Flatten(_)
Flatten(seqs) == IF seqs = <<>> THEN <<>> ELSE Head(seqs) \o Flatten(Tail(seqs))
Selections == Flatten(hrows) \o hrow

\* the mask stored by the latest selection before the last one that selected
\* channel c, 0 when there is none
StoredMaskBefore(c) ==
    LET sels == Selections
        earlier == {k \in 1..(Len(sels) - 1) : (sels[k].sel - 1) % 64 = c}
    IN IF earlier = {} THEN 0
       ELSE sels[CHOOSE k \in earlier : \A j \in earlier : j <= k].mask

\* C3: when the packed data runs out before a row is complete, the decoder
\* reports an InvalidSource error: it never returns a pattern.
C3_ShortDataIsAnError == hshort => ppc # "returned"

\* C4: for each field of a channel entry: with the present bit set, the raw
\* byte(s) are read from the stream and stored in the channel's slot; with the
\* present or the repeat bit set, the entry carries the stored value (note and
\* volume translated, instrument and effect as stored); else the field is 0.
C4_FieldsReadStoredCarried ==
    hstep.kind = "entry" =>
        LET c == hstep.channel
            mask == lastMask[c]
            e == hstep.entry
        IN /\ Bit(mask, 0) = 1 => InStream(NoteAt, lastNote[c])
           /\ Bit(mask, 1) = 1 => InStream(InsAt, lastIns[c])
           /\ Bit(mask, 2) = 1 => InStream(VolAt, lastVol[c])
           /\ Bit(mask, 3) = 1 => /\ InStream(EffectAt, lastEffect[c])
                                  /\ InStream(EffectAt + 1, lastEffectParam[c])
           /\ e.Note = IF Bit(mask, 0) = 1 \/ Bit(mask, 4) = 1
                       THEN translateNote(lastNote[c]) ELSE 0
           /\ e.Instrument = IF Bit(mask, 1) = 1 \/ Bit(mask, 5) = 1
                             THEN lastIns[c] ELSE 0
           /\ <<e.VolumeCommand, e.VolumeParam>> =
                 IF Bit(mask, 2) = 1 \/ Bit(mask, 6) = 1
                 THEN translatePatternVolume(lastVol[c]) ELSE <<0, 0>>
           /\ <<e.Effect, e.EffectParam>> =
                 IF Bit(mask, 3) = 1 \/ Bit(mask, 7) = 1
                 THEN <<lastEffect[c], lastEffectParam[c]>> ELSE <<0, 0>>
           /\ Last(patternRow) = e

\* C4 on the passes during which the data did not run out
C4_WhenDataSuffices == hstep.short \/ C4_FieldsReadStoredCarried

\* C5: for a nonzero channel-select byte b the entry's channel is (b - 1) & 63;
\* with bit 0x80 of b set the next stream byte replaces the channel's stored
\* mask; with it clear no mask byte is consumed and the mask most recently
\* stored for the channel (initially 0) is used unmodified.
C5_ChannelAndMask ==
    hstep.kind = "entry" =>
        LET c == (hstep.sel - 1) % 64 IN
        /\ InStream(hstep.from, hstep.sel)
        /\ hstep.channel = c
        /\ hstep.entry.Channel = c
        /\ hstep.mask = lastMask[c]
        /\ hstep.prev.mask = StoredMaskBefore(c)
        /\ hstep.sel >= 128 => /\ InStream(hstep.from + 1, lastMask[c])
                               /\ hstep.afterMask = hstep.from + 2
        /\ hstep.sel < 128 => /\ lastMask[c] = StoredMaskBefore(c)
                              /\ hstep.afterMask = hstep.from + 1

\* C5 on the passes during which the data did not run out
C5_WhenDataSuffices == hstep.short \/ C5_ChannelAndMask

\* C6: a channel entry consumes exactly 1 byte (channel select) + 1 if bit 0x80
\* of the select byte is set + 1 for each of the note, instrument and volume
\* present bits + 2 for the effect present bit, and nothing for a repeat bit;
\* an entry whose mask is repeat-last-volume alone carries the translation of
\* the volume stored before, and reads no volume byte.
C6_BytesConsumed ==
    hstep.kind = "entry" =>
        LET c == hstep.channel IN
        /\ dataRead = EntryEnd
        /\ lastMask[c] = PmaskLastVol =>
              /\ dataRead = FieldsAt
              /\ lastVol[c] = hstep.prev.vol
              /\ <<hstep.entry.VolumeCommand, hstep.entry.VolumeParam>> =
                    translatePatternVolume(hstep.prev.vol)

\* C6 on the passes during which the data did not run out
C6_WhenDataSuffices == hstep.short \/ C6_BytesConsumed

\* C7: a channel-select byte 0 ends the current row and decoding goes on with
\* the next row; a row whose only byte is the terminator has no entry.
C7_ZeroEndsRow ==
    /\ Len(p.Rows) = row
    /\ Len(hrows) = row
    /\ \A k \in 1..Len(p.Rows) :
          hrows[k] = <<>> => p.Rows[k].Entries = <<>>
    /\ (hstep.kind # "none" /\ InStream(hstep.from, 0)) =>
          /\ hstep.kind = "endrow"
          /\ dataRead = hstep.from + 1
          /\ patternRow = <<>>
          /\ row >= 1

\* two rows are finished, the first made of its terminator alone, the second
\* with an entry
C7_Witness ==
    /\ Len(p.Rows) = 2
    /\ InStream(0, 0)
    /\ p.Rows[1].Entries = <<>>
    /\ Len(p.Rows[2].Entries) = 1
    /\ ~hshort

\* the fields of an entry that its mask does not select are 0
OnlySelectedFields(e, mask) ==
    /\ (Bit(mask, 0) = 0 /\ Bit(mask, 4) = 0) => e.Note = 0
    /\ (Bit(mask, 1) = 0 /\ Bit(mask, 5) = 0) => e.Instrument = 0
    /\ (Bit(mask, 2) = 0 /\ Bit(mask, 6) = 0) =>
          (e.VolumeCommand = 0 /\ e.VolumeParam = 0)
    /\ (Bit(mask, 3) = 0 /\ Bit(mask, 7) = 0) =>
          (e.Effect = 0 /\ e.EffectParam = 0)

\* entries are the entries of the selections sels, one each, in their order
EntriesFollow(entries, sels) ==
    /\ Len(entries) = Len(sels)
    /\ \A j \in 1..Len(sels) :
          /\ sels[j].sel # 0
          /\ InStream(sels[j].from, sels[j].sel)
          /\ entries[j].Channel = (sels[j].sel - 1) % 64
          /\ OnlySelectedFields(entries[j], sels[j].mask)
          /\ j > 1 => sels[j - 1].from < sels[j].from

\* C8: the entries of a row are in the order of their channel-select bytes in
\* the stream (not sorted by channel), one per nonzero channel-select byte
\* before the terminator, each with only the fields its own mask selects.
C8_EncounterOrder ==
    /\ EntriesFollow(patternRow, hrow)
    /\ \A k \in 1..Len(p.Rows) : EntriesFollow(p.Rows[k].Entries, hrows[k])

\* a finished row of channel 18 then channel 11, with different masks, read
\* whole from the data
C8_Witness ==
    /\ Len(p.Rows) >= 1
    /\ Len(p.Rows[1].Entries) = 2
    /\ p.Rows[1].Entries[1].Channel = 18
    /\ p.Rows[1].Entries[2].Channel = 11
    /\ hrows[1][1].mask # hrows[1][2].mask
    /\ p.Rows[1].Entries[1].Note # 0
    /\ p.Rows[1].Entries[2].VolumeCommand # 0
    /\ ~hshort

----------------------------------------------------------------------------
(* Claims on the channel counts *)

\* the largest number of a non-empty set of numbers
MaxOf(S) == CHOOSE x \in S : \A y \in S : y <= x

\* the channels of the entries of a pattern
ChannelsOf(pat) ==
    UNION {{pat.Rows[k].Entries[e].Channel : e \in 1..Len(pat.Rows[k].Entries)} :
              k \in 1..Len(pat.Rows)}

\* 1 + the highest channel selected by an entry of the pattern, 0 without any
HighestPlusOne(pat) ==
    IF ChannelsOf(pat) = {} THEN 0 ELSE 1 + MaxOf(ChannelsOf(pat))

\* C20: Pattern.Channels as ItPattern.ToCommon leaves it is 1 + the highest
\* channel index selected by an entry of the pattern (0 when none is) and at
\* most 64; Module.Channels is the largest Pattern.Channels of the patterns
\* and ChannelSettings is cut to exactly Module.Channels elements.
C20_ChannelCounts ==
    /\ \A k \in 1..Len(module.Patterns) :
          /\ module.Patterns[k].Channels = HighestPlusOne(module.Patterns[k])
          /\ module.Patterns[k].Channels <= 64
    /\ mpc = "returned" =>
          /\ Len(module.Patterns) = Len(itm.Patterns)
          /\ module.Channels =
                MaxOf({0} \cup {module.Patterns[k].Channels :
                                   k \in 1..Len(module.Patterns)})
          /\ module.ChannelSettings =
                SubSeq(allChannelSettings, 1, module.Channels)
          /\ Len(module.ChannelSettings) = module.Channels

\* a module of two patterns, the first selecting the channels 0 and 1 and the
\* second channel 0 only: two channels and two channel settings, as in the
\* test fixture
C20_Witness ==
    /\ mpc = "returned"
    /\ Len(module.Patterns) = 2
    /\ module.Patterns[1].Channels = 2
    /\ module.Patterns[2].Channels = 1
    /\ module.Channels = 2
    /\ Len(module.ChannelSettings) = 2

----------------------------------------------------------------------------
(* Claims on the entries of selections without fields *)

\* the selections of sels whose effective mask is not 0
Masked(sels) == {j \in 1..Len(sels) : sels[j].mask # 0}

\* C21 as stated: an entry is appended only when the effective mask of the
\* selected channel is nonzero, so that a row holds as many entries as it has
\* selections with a nonzero effective mask.
C21_EntryOnlyIfMasked ==
    /\ Len(patternRow) = Cardinality(Masked(hrow))
    /\ \A k \in 1..Len(p.Rows) :
          Len(p.Rows[k].Entries) = Cardinality(Masked(hrows[k]))

\* the entry of channel c with its four fields empty
EmptyEntry(c) ==
    [Channel |-> c, Note |-> 0, Instrument |-> 0, VolumeCommand |-> 0,
     VolumeParam |-> 0, Effect |-> 0, EffectParam |-> 0]

\* the entries of the selections sels, whatever their masks, and those of a
\* selection with effective mask 0 empty
EntryPerSelection(entries, sels) ==
    /\ Len(entries) = Len(sels)
    /\ \A j \in 1..Len(sels) :
          sels[j].mask = 0 =>
             entries[j] = EmptyEntry((sels[j].sel - 1) % 64)

\* C21, amended: every nonzero channel-select byte appends one entry, whether
\* or not a field was read or repeated; a channel-select byte whose effective
\* mask is 0 appends an entry that holds the channel and four empty fields.
C21_EntryForEverySelection ==
    /\ EntryPerSelection(patternRow, hrow)
    /\ \A k \in 1..Len(p.Rows) : EntryPerSelection(p.Rows[k].Entries, hrows[k])
    /\ (hstep.kind = "entry" /\ hstep.mask = 0) =>
          /\ patternRow # <<>>
          /\ Last(patternRow) = EmptyEntry(hstep.channel)

\* channel 47 selected with its stored mask, which is 0 at the start of the
\* pattern: the row has one entry, all of whose fields are empty
C21_Witness ==
    /\ hstep.kind = "entry"
    /\ hstep.sel = 48
    /\ hstep.mask = 0
    /\ Len(hrow) = 1
    /\ patternRow = <<EmptyEntry(47)>>

----------------------------------------------------------------------------
(* Claims on the per-channel state of the pattern decoder *)

\* the fine-grained decoder returns what the call view returns
PatternAgreesWithCall ==
    ppc = "returned" => p = patternFrom(itp, patternStart)

ZeroPerChannel == [c \in Channels |-> 0]

\* the pattern that a decode of pat gives when nothing was decoded before it:
\* all of the per-channel state zero at its start
DecodedAlone(pat) ==
    patternFrom(pat, [patternStart EXCEPT
                         !.last = [lastMask |-> ZeroPerChannel,
                                   lastNote |-> ZeroPerChannel,
                                   lastIns |-> ZeroPerChannel,
                                   lastVol |-> ZeroPerChannel,
                                   lastEffect |-> ZeroPerChannel,
                                   lastEffectParam |-> ZeroPerChannel]])

\* the mask of the latest selection of channel c in the pattern so far, in
\* whatever row it was, 0 when there is none
LatestMask(c) ==
    LET sels == Selections
        of == {j \in 1..Len(sels) : (sels[j].sel - 1) % 64 = c}
    IN IF of = {} THEN 0 ELSE sels[MaxOf(of)].mask

\* C22: the per-channel state is all zero at the start of every pattern
\* decode and is not shared between decodes: each pattern of a module decodes
\* to what it decodes to alone, whatever was decoded before it; within one
\* pattern the state persists across the rows.
C22_FreshChannelState ==
    /\ \A k \in 1..Len(module.Patterns) :
          module.Patterns[k] = DecodedAlone(itm.Patterns[k])
    /\ (mpc = "pattern" /\ ppc = "rows" /\ hstep = NoStep) =>
          /\ lastMask = ZeroPerChannel
          /\ lastNote = ZeroPerChannel
          /\ lastIns = ZeroPerChannel
          /\ lastVol = ZeroPerChannel
          /\ lastEffect = ZeroPerChannel
          /\ lastEffectParam = ZeroPerChannel
    /\ (mpc = "pattern" /\ ppc = "rows") =>
          \A c \in Channels : lastMask[c] = LatestMask(c)

\* a module of two patterns: the first gives channel 0 the note 60 in its
\* first row and repeats it in its second row, where it is note 61 again; the
\* second repeats the last note of channel 0, which is the 0 of its own
\* state (note 1), not the 60 of the pattern before
C22_Witness ==
    /\ mpc = "returned"
    /\ Len(module.Patterns) = 2
    /\ itm.Patterns[1] = [Data |-> <<129, 1, 60, 0, 129, 16>>, Rows |-> 2]
    /\ itm.Patterns[2] = [Data |-> <<129, 16>>, Rows |-> 1]
    /\ module.Patterns[1].Rows[1].Entries[1].Note = 61
    /\ module.Patterns[1].Rows[2].Entries[1].Note = 61
    /\ module.Patterns[2].Rows[1].Entries[1].Note = 1

----------------------------------------------------------------------------
(* Claims on the passes of decodeChunk's loop *)

\* the default width W0 and the fetch width of the codec, and the biases of
\* the window of Mode B, as the format gives them
W0 == IF codec.Is16 THEN 17 ELSE 9
FetchWidth == IF codec.Is16 THEN 4 ELSE 3
LowerBias == IF codec.Is16 THEN 0 - 8 ELSE 0 - 4
UpperBias == IF codec.Is16 THEN 7 ELSE 3

\* the last pass read a value at all
Passed == hpass.kind # "none"

\* the last pass emitted no sample and left the accumulator alone
NoSample == Len(decoded) = hpass.count /\ mem1 = hpass.mem1 /\ hpass.kind # "write"

\* the last pass emitted exactly one sample, whose delta was d, read nothing
\* after v and left the width alone
OneSample(d) ==
    /\ hpass.kind = "write"
    /\ Len(decoded) = hpass.count + 1
    /\ mem1 - hpass.mem1 = d
    /\ width = hpass.width
    /\ position(dataSource) = hpass.from + hpass.width

\* v as a signed number of w bits
SignedDelta(v, w) == IF v < Pow2(w - 1) THEN v ELSE v - Pow2(w)

\* the width that changeWidth(d) leaves at the width w
Skipping(w, d) == IF d + 1 < w THEN d + 1 ELSE d + 2

\* C23: Mode A. When the width w is at most 6 and the value v read is
\* 2^(w-1), no sample is emitted and fetch_width more bits (3 for 8-bit, 4 for
\* 16-bit) are read and given to changeWidth; for any other v one sample is
\* emitted, with delta v when v < 2^(w-1) and v - 2^w otherwise.
C23_ModeA ==
    (Passed /\ hpass.width <= 6) =>
       /\ hpass.mode = "A"
       /\ hpass.v = StreamValue(dataSource.source, hpass.from, hpass.width)
       /\ IF hpass.v = Pow2(hpass.width - 1)
          THEN /\ NoSample
               /\ hpass.kind = "change" =>
                     /\ position(dataSource) =
                           hpass.from + hpass.width + FetchWidth
                     /\ hpass.fetched =
                           StreamValue(dataSource.source,
                                       hpass.from + hpass.width, FetchWidth)
                     /\ width = Skipping(hpass.width, hpass.fetched)
               /\ hpass.kind # "change" =>
                     /\ hpass.kind = "fetchfails"
                     /\ dret.err = ErrEndOfStream
                     /\ 8 * Len(dataSource.source)
                           < hpass.from + hpass.width + FetchWidth
          ELSE OneSample(SignedDelta(hpass.v, hpass.width))

\* the 8-bit codec at width 3 read the escape 4 and fetched 3 bits, here 0:
\* the width is 1 and no sample was emitted
C23_Witness ==
    /\ ~codec.Is16
    /\ hpass.mode = "A"
    /\ hpass.kind = "change"
    /\ hpass.width = 3
    /\ hpass.v = 4
    /\ hpass.fetched = 0
    /\ width = 1
    /\ decoded = <<>>

\* C24: Mode B. When 6 < w < W0 and v lies in the window from 2^(w-1) +
\* lower_bias to 2^(w-1) + upper_bias (-4 and 3 for 8-bit, -8 and 7 for
\* 16-bit), no sample is emitted, no further bits are read and changeWidth is
\* applied to v - (2^(w-1) + lower_bias); for any v outside the window one
\* sample is emitted, with delta v when v < 2^(w-1) and v - 2^w otherwise.
C24_ModeB ==
    (Passed /\ 6 < hpass.width /\ hpass.width < W0) =>
       /\ hpass.mode = "B"
       /\ hpass.v = StreamValue(dataSource.source, hpass.from, hpass.width)
       /\ IF /\ Pow2(hpass.width - 1) + LowerBias <= hpass.v
             /\ hpass.v <= Pow2(hpass.width - 1) + UpperBias
          THEN /\ NoSample
               /\ hpass.kind = "change"
               /\ position(dataSource) = hpass.from + hpass.width
               /\ width = Skipping(hpass.width,
                                   hpass.v - (Pow2(hpass.width - 1) + LowerBias))
          ELSE OneSample(SignedDelta(hpass.v, hpass.width))

\* the 8-bit codec at width 7 read 64, the fifth value of the window from 60
\* to 67: the width is 5, no sample was emitted and no further bit was read
C24_Witness ==
    /\ ~codec.Is16
    /\ hpass.mode = "B"
    /\ hpass.kind = "change"
    /\ hpass.width = 7
    /\ hpass.v = 64
    /\ width = 5
    /\ decoded = <<>>
    /\ position(dataSource) = hpass.from + 7

\* C25: Mode C. When w = W0 and bit W0-1 of v is set, no sample is emitted
\* and the width becomes v without that bit, plus 1, whatever the width was
\* (it may be W0 again or more); otherwise one sample is emitted with the
\* delta v, which is not negative.
C25_ModeC ==
    (Passed /\ hpass.width = W0) =>
       /\ hpass.mode = "C"
       /\ hpass.v = StreamValue(dataSource.source, hpass.from, hpass.width)
       /\ IF hpass.v >= Pow2(W0 - 1)
          THEN /\ NoSample
               /\ hpass.kind = "change"
               /\ position(dataSource) = hpass.from + hpass.width
               /\ width = (hpass.v - Pow2(W0 - 1)) + 1
          ELSE /\ OneSample(hpass.v)
               /\ hpass.v >= 0

\* the 8-bit codec at width 9 read 255 with the top bit: the width is 256,
\* above the default width
C25_Witness ==
    /\ ~codec.Is16
    /\ hpass.mode = "C"
    /\ hpass.kind = "change"
    /\ hpass.v = 256 + 255
    /\ width = 256
    /\ width > W0

\* C26: changeWidth(d) at the width w leaves the width d + 1 when d + 1 < w
\* and d + 2 otherwise; the width after a changeWidth is never the width
\* before it. changeWidth is called by the escapes of the modes A and B.
C26_ChangeWidthSkips ==
    (hpass.kind = "change" /\ hpass.mode \in {"A", "B"}) =>
       LET d == IF hpass.mode = "A" THEN hpass.fetched
                ELSE hpass.v - (Pow2(hpass.width - 1) + LowerBias)
       IN /\ d + 1 < hpass.width => width = d + 1
          /\ d + 1 >= hpass.width => width = d + 2
          /\ width # hpass.width

\* at width 1 the escape fetched 0: 0 + 1 is the width itself, which is
\* skipped, and the width is 2
C26_Witness ==
    /\ hpass.kind = "change"
    /\ hpass.mode = "A"
    /\ hpass.width = 1
    /\ hpass.fetched = 0
    /\ width = 2

----------------------------------------------------------------------------
(* Claims on write *)

\* the delta of the k-th write of the block: its value, less 2 * top_bit when
\* top_bit is not 0 and the value has that bit
WriteDelta(k) ==
    LET x == hwrites[k]
    IN IF x.topBit # 0 /\ (x.v \div x.topBit) % 2 = 1
       THEN x.v - 2 * x.topBit
       ELSE x.v

\* the sum of the first k deltas of the block
RECURSIVE SumOfDeltas(_)
SumOfDeltas(k) == IF k = 0 THEN 0 ELSE SumOfDeltas(k - 1) + WriteDelta(k)

\* the sum of the first k prefix sums of the deltas of the block
RECURSIVE SumOfPrefixSums(_)
SumOfPrefixSums(k) ==
    IF k = 0 THEN 0 ELSE SumOfPrefixSums(k - 1) + SumOfDeltas(k)

\* what the accumulators, the number of samples and the remaining count are
\* after the writes of the block so far
WritesAccumulate ==
    /\ Len(decoded) = Len(hwrites)
    /\ mem1 = SumOfDeltas(Len(hwrites))
    /\ mem2 = SumOfPrefixSums(Len(hwrites))
    /\ dpc = "decodeChunk" =>
          curLength = min(remainingLength, Ceiling) - Len(hwrites)

\* C27 as stated: each write adds its delta to mem1 and mem1 to mem2, whatever
\* It215 is, appends one sample and takes one off the remaining count, and the
\* k-th sample of a block is the sum of the first k deltas when It215 is
\* false and the sum of the first k prefix sums when it is true.
C27_SampleIsSum ==
    /\ WritesAccumulate
    /\ \A k \in 1..Len(decoded) :
          decoded[k] = IF codec.It215 THEN SumOfPrefixSums(k) ELSE SumOfDeltas(k)

\* C27, amended: the same, the k-th sample being that sum truncated to the
\* signed 16-bit range.
C27_SampleIsTruncatedSum ==
    /\ WritesAccumulate
    /\ \A k \in 1..Len(decoded) :
          decoded[k] =
             Int16(IF codec.It215 THEN SumOfPrefixSums(k) ELSE SumOfDeltas(k))

\* two writes with It215 set, the second with a negative delta: the second
\* sample is the first delta twice plus the second
C27_Witness ==
    /\ codec.It215
    /\ Len(hwrites) = 2
    /\ WriteDelta(1) > 0
    /\ WriteDelta(2) < 0
    /\ decoded[2] = 2 * WriteDelta(1) + WriteDelta(2)
    /\ mem1 # mem2

----------------------------------------------------------------------------
(* Claims on the buffer of the bitstream *)

\* the buffer of b holds the stream bits from b's position on, buffered of
\* them, bit j of the buffer being stream bit (position + j), and nothing else
HoldsPending(b) ==
    b.buffer = {j \in 0..(b.buffered - 1) :
                   StreamBit(b.source, position(b) + j) = 1}

\* widths whose refill is looked into: a byte, the codec's widest and the
\* widest there is
RefillWidths == {n \in ReadWidths : n \in {8, 17, 31}}

\* C30: at any time 0 <= buffered < 64, no pending bit has been shifted out
\* of the 64-bit buffer, and the bits of the buffer at and above position
\* buffered are 0: between the calls, and inside a call after its refill loop.
C30_BufferWithinWord ==
    /\ 0 <= bs.buffered
    /\ bs.buffered < 64
    /\ bs.buffer \subseteq 0..(bs.buffered - 1)
    /\ HoldsPending(bs)
    /\ \A n \in RefillWidths :
          LET f == fill(bs, n).bs
          IN /\ 0 <= f.buffered
             /\ f.buffered < 64
             /\ f.buffer \subseteq 0..(f.buffered - 1)
             /\ HoldsPending(f)

\* a read of 31 bits found 29: they are all pending in the buffer, the
\* highest of them a 1 at position 28
C30_Witness ==
    /\ bsLast.err = ErrEndOfStream
    /\ bsLast.width = 31
    /\ bs.buffered = 29
    /\ 28 \in bs.buffer

\* C29: a read that fails with ErrEndOfStream consumes no bit and leaves
\* nothing a later call can tell: the position of the stream counts the bits
\* of the successful reads only, the bits from there on are all pending, and
\* every read, whatever failed before it, fails exactly when fewer bits than
\* asked are left after the successful reads and otherwise returns the bits
\* that follow them.
C29_FailedReadLeavesNoTrace ==
    /\ position(bs) = bsConsumed
    /\ HoldsPending(bs)
    /\ bsLast.err = ErrEndOfStream =>
          /\ bsLast.val = 0
          /\ 8 * Len(bs.source) - bsConsumed < bsLast.width
    /\ bsLast.err = nil =>
          /\ bsConsumed <= 8 * Len(bs.source)
          /\ bsLast.val = StreamValue(bs.source, bsConsumed - bsLast.width,
                                      bsLast.width)

\* a read succeeded with 8 or more bits still buffered, which only the refill
\* of a failed read before it leaves there, and returned bits that are not 0
C29_Witness ==
    /\ bsLast.err = nil
    /\ bsLast.width > 0
    /\ bsLast.val # 0
    /\ bs.buffered >= 8

----------------------------------------------------------------------------
(* Claims on reads taken in two parts *)

\* high * 2^a, without computing 2^a when high is 0
Shifted(high, a) == IF high = 0 THEN 0 ELSE high * Pow2(a)

\* C28: from any state of the bitstream and for widths a, b >= 0 with
\* a + b <= 31, read(a + b) succeeds exactly when read(a) followed by read(b)
\* both succeed, and then its value is read(a) + read(b) * 2^a and both ways
\* leave the stream at the same bit position.
C28_ReadInTwoParts ==
    hsplit.taken =>
        /\ hsplit.a >= 0 /\ hsplit.b >= 0 /\ hsplit.a + hsplit.b <= 31
        /\ (hsplit.whole.err = nil) <=> hsplit.parts.ok
        /\ hsplit.parts.ok =>
              /\ hsplit.whole.val =
                    hsplit.parts.low + Shifted(hsplit.parts.high, hsplit.a)
              /\ hsplit.whole.position = hsplit.parts.position

\* 12 bits read whole and as 4 and 8 bits from a stream that had bits
\* buffered, the 8 across a byte boundary, neither part 0
C28_Witness ==
    /\ hsplit.taken
    /\ hsplit.a = 4
    /\ hsplit.b = 8
    /\ hsplit.parts.ok
    /\ hsplit.parts.low # 0
    /\ hsplit.parts.high # 0
    /\ hsplit.whole.val = hsplit.parts.low + 16 * hsplit.parts.high
    /\ bsConsumed > 12
    /\ (bsConsumed - 12) % 8 # 0

----------------------------------------------------------------------------
(* Claims on the rows and the stored values of the pattern decoder *)

\* C33: ItPattern.ToCommon returns exactly Header.Rows rows, in the order of
\* the stream, whatever the packed data is: the bytes after the terminator of
\* the last row are not read, and data that ends early does not cut the rows.
C33_RowsAsInHeader ==
    /\ Len(p.Rows) = row
    /\ Len(hrows) = row
    /\ row <= itp.Rows
    /\ dataRead <= Len(itp.Data)
    /\ \A k \in 1..Len(p.Rows) : Len(p.Rows[k].Entries) = Len(hrows[k])
    /\ \A k \in 1..(Len(hrows) - 1) :
          \A i \in 1..Len(hrows[k]), j \in 1..Len(hrows[k + 1]) :
              hrows[k][i].from < hrows[k + 1][j].from
    /\ ppc = "returned" => Len(p.Rows) = itp.Rows

\* two rows were asked and returned, the first with an entry and the second
\* without, and bytes of the data were left unread
C33_Witness ==
    /\ ppc = "returned"
    /\ itp.Rows = 2
    /\ Len(p.Rows) = 2
    /\ Len(p.Rows[1].Entries) = 1
    /\ p.Rows[2].Entries = <<>>
    /\ dataRead < Len(itp.Data)
    /\ ~hshort

\* the six stored values of channel ch are after the step what they were
KeepsChannel(ch) ==
    /\ lastMask'[ch] = lastMask[ch]
    /\ lastNote'[ch] = lastNote[ch]
    /\ lastIns'[ch] = lastIns[ch]
    /\ lastVol'[ch] = lastVol[ch]
    /\ lastEffect'[ch] = lastEffect[ch]
    /\ lastEffectParam'[ch] = lastEffectParam[ch]

\* C36: a pass for a channel-select byte of channel c changes the stored
\* mask and values of channel c only: those of every other channel stay, the
\* mask of c stays when no mask byte follows, and a field of c whose present
\* bit is clear keeps its stored value.
C36_OnlySelectedChannelChanges ==
    [][hstep'.kind = "entry" =>
          /\ \A ch \in Channels \ {hstep'.channel} : KeepsChannel(ch)
          /\ hstep'.sel < 128 =>
                lastMask'[hstep'.channel] = lastMask[hstep'.channel]
          /\ Bit(hstep'.mask, 0) = 0 =>
                lastNote'[hstep'.channel] = lastNote[hstep'.channel]
          /\ Bit(hstep'.mask, 1) = 0 =>
                lastIns'[hstep'.channel] = lastIns[hstep'.channel]
          /\ Bit(hstep'.mask, 2) = 0 =>
                lastVol'[hstep'.channel] = lastVol[hstep'.channel]
          /\ Bit(hstep'.mask, 3) = 0 =>
                /\ lastEffect'[hstep'.channel] = lastEffect[hstep'.channel]
                /\ lastEffectParam'[hstep'.channel] =
                      lastEffectParam[hstep'.channel]]_vars

\* channel 47 was selected after the note and the instrument of channel 18
\* were read: channel 18 still has them, and its mask
C36_Witness ==
    /\ hstep.kind = "entry"
    /\ hstep.channel = 47
    /\ lastMask[18] = 147
    /\ lastNote[18] # 0
    /\ lastIns[18] # 0
    /\ ~hshort

\* no selection of channel c before the last pass had the present bit of the
\* field (0 note, 1 instrument, 2 volume, 3 effect)
NeverRead(c, bit) ==
    \A k \in 1..(Len(Selections) - 1) :
        (Selections[k].sel - 1) % 64 = c => Bit(Selections[k].mask, bit) = 0

\* the field of the last pass is repeated, not read, and was never read
RepeatsUnread(bit) ==
    /\ Bit(hstep.mask, bit + 4) = 1
    /\ Bit(hstep.mask, bit) = 0
    /\ NeverRead(hstep.channel, bit)

\* C37: a repeat-last bit for a field of a channel that was not read earlier
\* in the pattern gives the translation of the raw value 0, not an empty
\* field: note 1, instrument 0, volume command 1 with param 0, effect 0 with
\* param 0; a note selected by a present or a repeat bit is never 0.
C37_RepeatOfUnreadField ==
    hstep.kind = "entry" =>
       /\ patternRow # <<>> /\ Last(patternRow) = hstep.entry
       /\ RepeatsUnread(0) => hstep.entry.Note = 1
       /\ RepeatsUnread(1) => hstep.entry.Instrument = 0
       /\ RepeatsUnread(2) =>
             (hstep.entry.VolumeCommand = 1 /\ hstep.entry.VolumeParam = 0)
       /\ RepeatsUnread(3) =>
             (hstep.entry.Effect = 0 /\ hstep.entry.EffectParam = 0)
       /\ (Bit(hstep.mask, 0) = 1 \/ Bit(hstep.mask, 4) = 1) =>
             hstep.entry.Note # 0

\* channel 11 is given the mask 48 as the first thing of the pattern: note
\* and instrument are repeated without ever having been read
C37_Witness ==
    /\ hstep.kind = "entry"
    /\ hstep.from = 0
    /\ hstep.channel = 11
    /\ hstep.mask = 48
    /\ hstep.entry.Note = 1
    /\ hstep.entry.Instrument = 0
    /\ patternRow = <<hstep.entry>>
    /\ ~hshort

----------------------------------------------------------------------------
(* Claims on what Decode takes from its reader *)

\* the length prefix of the chunk at pos
DeclaredAt(data, pos) == data[pos + 1] + 256 * data[pos + 2]

\* where the reader is after chunk k was pulled: where the next chunk was
\* pulled from, or where the reader is now
ReaderAfter(k) == IF k < Len(hchunks) THEN hchunks[k + 1].pos ELSE r.pos

\* C32: a bit reader is made for each chunk, over that chunk's payload and
\* nothing else, so that no unread bit of a chunk reaches the next one; for
\* each chunk it pulls Decode takes 2 + L bytes from the reader, L being the
\* chunk's length prefix, and it takes nothing after the last chunk it needs.
C32_ReaderPerChunk ==
    /\ hchunks = <<>> => r.pos = 0
    /\ hchunks # <<>> => hchunks[1].pos = 0
    /\ \A k \in 1..Len(hchunks) :
          WholeChunkAt(r.data, hchunks[k].pos) =>
             ReaderAfter(k) =
                hchunks[k].pos + 2 + DeclaredAt(r.data, hchunks[k].pos)
    /\ (hchunks # <<>> /\ WholeChunkAt(r.data, Last(hchunks).pos)) =>
          /\ dataSource.source = PayloadAt(r.data, Last(hchunks).pos)
          /\ position(dataSource) >= 0
          /\ position(dataSource) <= 8 * Len(dataSource.source)
          /\ HoldsPending(dataSource)

\* Decode returned 16386 samples from two chunks, the first of which had
\* bits left: its reader is over the 5 bytes of the second, 34 bits of which
\* it read, and the byte after the second chunk was not taken
C32_Witness ==
    /\ dpc = "returned"
    /\ dret.err = nil
    /\ Len(hchunks) = 2
    /\ Len(dret.data) = 16386
    /\ Len(dataSource.source) = 5
    /\ position(dataSource) = 34
    /\ r.pos = Len(r.data) - 1

----------------------------------------------------------------------------
(* Claims on the widths of the codec *)

\* decodeChunk is about to read width bits: it is in its loop, samples are
\* missing and the width passed the guard
AboutToRead ==
    dpc = "decodeChunk" /\ curLength > 0 /\ ~widthOverDefault(codec, width)

\* C34: whenever decodeChunk reads bits the width is at least 1 and at most
\* W0, which is at most 17, and the bits fetched after Mode A's escape are 3
\* or 4; so no read is refused and Decode never returns ErrBadParam.
C34_WidthsAreLegal ==
    /\ W0 <= 17
    /\ propsOf(codec).defWidth = W0
    /\ propsOf(codec).fetchA \in {3, 4}
    /\ AboutToRead => (1 <= width /\ width <= W0)
    /\ Passed => (1 <= hpass.width /\ hpass.width <= W0)
    /\ dret.err # ErrBadParam
    /\ \A k \in 1..Len(hchunks) : hchunks[k].err # ErrBadParam

\* the 16-bit codec read at the width 1, the least, after a read at 17, the
\* most, and Decode returned its samples
C34_Witness ==
    /\ codec.Is16
    /\ dpc = "returned"
    /\ dret.err = nil
    /\ hpass.width = 1
    /\ hpass.kind = "write"
    /\ Len(dret.data) >= 1

\* the values that changeWidth can be given at the width w: what fetch_width
\* bits hold in Mode A, the offsets into the window in Mode B
ChangeArguments(w) ==
    IF w <= 6 THEN 0..(Pow2(propsOf(codec).fetchA) - 1)
    ELSE 0..(propsOf(codec).upperB - propsOf(codec).lowerB)

\* C35: a width set by changeWidth, in the escapes of the modes A and B, is
\* in 1..W0 with either parameter set, whatever the escape holds; so
\* ErrDecodingError is only returned after an escape of Mode C whose low bits
\* give a width above W0.
C35_OnlyModeCExceeds ==
    /\ (hpass.kind = "change" /\ hpass.mode \in {"A", "B"}) =>
          (1 <= width /\ width <= W0)
    /\ (AboutToRead /\ width < W0) =>
          \A d \in ChangeArguments(width) :
              /\ 1 <= changeWidth(width, d)
              /\ changeWidth(width, d) <= W0
    /\ dret.err = ErrDecodingError =>
          /\ hpass.mode = "C"
          /\ hpass.kind = "change"
          /\ width = (hpass.v - Pow2(W0 - 1)) + 1
          /\ width > W0

\* the 8-bit codec read 255 with the top bit at width 9: the width 256 made
\* Decode return ErrDecodingError
C35_Witness ==
    /\ ~codec.Is16
    /\ dpc = "returned"
    /\ dret.err = ErrDecodingError
    /\ hpass.mode = "C"
    /\ hpass.v = 256 + 255
    /\ width = 256

\* the delta that the last pass applied
LastDelta == mem1 - hpass.mem1

\* the delta d is within the bounds that the tables give for the width w
InTables(d, w) ==
    /\ propsOf(codec).lowerTab[w] <= d
    /\ d <= propsOf(codec).upperTab[w]

Native(d) == IF codec.Is16 THEN Int16(d) ELSE Int8(d)

----------------------------------------------------------------------------
(* SpecDecoders: a call of either decoder, run until it returns *)

\* longest payload of a chunk and longest packed data of the calls that are
\* followed to their return
MaxRunChunkLen == 2

MaxRunPatLen == 4

\* a call of Decode on a chunk stream, or of ItPattern.ToCommon on packed data
InitDecoders ==
    \/ InitCodec /\ Len(r.data) <= MaxRunChunkLen + 2
    \/ InitPattern /\ Len(itp.Data) <= MaxRunPatLen

NextDecoders == NextCodec \/ NextPattern

\* neither decoder waits for anything: a call that can take a step takes it
SpecDecoders == InitDecoders /\ [][NextDecoders]_vars /\ WF_vars(NextDecoders)

----------------------------------------------------------------------------
(* Claim on the termination of the decoders *)

\* a pass of decodeChunk's loop was taken: the call is in the loop and samples
\* are missing
ChunkPass == dpc = "decodeChunk" /\ curLength > 0

\* the call of Decode failed
DecodeFails == dpc' = "returned" /\ dret'.err # nil

\* a pass of decodeChunk's loop fails or takes a bit or more of the chunk,
\* which has no more bits than its bytes hold
ChunkPassConsumes ==
    ChunkPass =>
       \/ DecodeFails
       \/ /\ dpc' = "decodeChunk"
          /\ position(dataSource') > position(dataSource)
          /\ position(dataSource') <= 8 * Len(dataSource'.source)
          /\ dataSource'.source = dataSource.source

\* a pass of Decode's loop, from the call of decodeChunk to its return, fails
\* or leaves fewer samples to produce
DecodePassDecreases ==
    /\ (dpc = "Decode" /\ remainingLength > 0) =>
          \/ DecodeFails
          \/ dpc' = "decodeChunk" /\ curLength' > 0
                /\ remainingLength' = remainingLength
    /\ (dpc = "decodeChunk" /\ curLength <= 0) =>
          /\ dpc' = "Decode"
          /\ remainingLength' < remainingLength
          /\ remainingLength' >= 0
    /\ dpc = "decodeChunk" => remainingLength' <= remainingLength

\* a pass of the inner loop of the pattern decoder ends the row or takes a
\* byte or more of the data, which is finite
PatternPassConsumes ==
    (ppc = "rows" /\ row < itp.Rows) =>
       \/ row' = row + 1 /\ dataRead' >= dataRead
       \/ /\ row' = row
          /\ dataRead' > dataRead
          /\ dataRead' <= Len(itp.Data)

\* C31: both decoders terminate on every finite input: a pass of decodeChunk's
\* loop fails or consumes at least one bit of the chunk, a pass of Decode's
\* loop fails or strictly decreases remainingLength, a pass of the pattern
\* decoder's inner loop ends the row or consumes at least one byte; and so
\* every call eventually returns.
C31_DecodersTerminate ==
    /\ [][ChunkPassConsumes /\ DecodePassDecreases /\ PatternPassConsumes]_vars
    /\ <>(dpc = "returned" \/ ppc = "returned")

\* Decode returned two samples after two passes and an escape; and the
\* pattern decoder returned two rows after an entry
C31_Witness ==
    \/ /\ dpc = "returned"
       /\ dret.err = nil
       /\ Len(dret.data) = 2
       /\ position(dataSource) > 9
    \/ /\ ppc = "returned"
       /\ Len(p.Rows) = 2
       /\ dataRead >= 3
       /\ Len(p.Rows[1].Entries) >= 1

====
